---- MODULE Spec2Model ----
(***************************************************************************)
(* A model of the geecache cache: the single-flight coalescer              *)
(* (singleflight.Group.Do), the read-through Group.Get built on it, the    *)
(* byte-bounded LRU store (lru.Cache), the consistent-hash ring            *)
(* (consistenthash.Map), the peer pool (HTTPPool) with its mutex and its    *)
(* HTTP handler, the group's load through a registered peer picker, the    *)
(* registry of groups, the mutexes a Get takes, ByteView's byte arrays,     *)
(* the eviction callback of the store, the path an httpGetter sends and    *)
(* ServeHTTP splits, and a fleet of nodes that forward Gets to each other. *)
(***************************************************************************)
EXTENDS Integers, Sequences, FiniteSets, TLC

\* ------------------------------------------------------------------ bounds
NThreads == 2        \* goroutines calling Do / Get
MaxCalls == 2        \* call records ever created by one coalescer

Threads == 1..NThreads

\* The nil *lru.Cache of a cache shell that was never written; an allocated
\* store l is the one-element sequence <<l>>.
NoStore == << >>
Keys == {"k1", "k2"}
NIL == "nil"

\* What a fn handed to Do can return: (value, error) pairs.
Outcomes ==
  { [val |-> "v1", err |-> NIL],
    [val |-> "v2", err |-> NIL],
    [val |-> NIL,  err |-> "e1"] }
\* The error of the backing source.
LoaderError == "e1"

VARIABLES
  pc,      \* pc[t]: position of goroutine t
  key,     \* key[t]: the key argument of t's current (or last) call
  c,       \* c[t]: the *call t holds in Do (an index into calls), or 0
  ret,     \* ret[t]: what t's last call returned, and how, until t calls again
  m,       \* singleflight.Group.m: key -> *call
  calls,   \* the heap of call structs: [val, err, wg]
  lru,     \* one lru.Cache: [maxBytes, nbytes, ll, cache, elem]
  lpc,     \* position of the store's single caller: "idle", or inside Add's loop
  lop,     \* the store operation that ran last, with its arguments
  seen,    \* the resident keys by last access, latest first, each with the
           \* kind of that access ("Add" or "Get")
  hash,    \* the hash function of the rings, a function on strings
  rmap,    \* a consistenthash.Map
  added,   \* the peers passed to Add of rmap so far
  rgot,    \* per key, what Get of rmap returned since the last Add, or NIL
  pools,   \* per node, its HTTPPool
  picked,  \* the last PickPeer since the last Set: node, key and result
  lpeer,   \* lpeer[t]: the PeerGetter t's load closure has picked, or nil
  picks,   \* picks[k]: how often the group asked its picker for key k
  fetches, \* fetches[k]: how often the group asked a peer for key k
  fails,   \* fails[k]: how many of these fetches returned an error
  clean,   \* clean[t]: the cache was not written since t's last Get began
  lastAdd, \* the call whose load made the latest write of the cache, or 0
  prevErr, \* prevErr[t]: the call whose getter error t's previous Get of the
           \* same key returned, or 0
  mainCache, \* Group.mainCache, the cache shell: [lru, cacheBytes]
  loads,   \* loads[k]: how often the group's getter was invoked for key k
  pmu,     \* pmu[n]: HTTPPool.mu of node n is held by a Set in progress
  pend,    \* pend[n]: the peer list of the latest Set that locked node n
  prev,    \* prev[n]: the peer list of the Set before that one
  groups,  \* the registry: name -> *Group (an index into gheap)
  gheap,   \* the Group structs made so far: [name, getter, mainCache, peers]
  gres,    \* the registry or RegisterPeers call that ran last: its
           \* argument, the group it returned or acted on, whether it panicked
  got,     \* got[name]: the group the first successful GetGroup(name) gave
  called,  \* the groups RegisterPeers was called on
  bufs,    \* the byte arrays allocated so far: bufs[a] is the content of a
  views,   \* the ByteViews made so far: [b, made, cached], b the array
           \* the view holds, made the bytes it was made from
  ext,     \* the arrays that code outside the package holds a slice of
  req,     \* the path of the HTTP request served last, a sequence of characters
  resp,    \* the response to it: [status, body, get, panic], get what
           \* Group.Get returned to the handler, if it was called
  held,    \* held[l]: the goroutine that holds mutex l, or 0
  oev,     \* the eviction callback of the store: [fn, kv, calls], fn whether
           \* OnEvicted is set, kv the entry RemoveOldest is about to pass to
           \* it, calls the arguments of its invocations since the last
           \* operation of the store began
  trip,    \* the latest request of an httpGetter: [group, key] its arguments,
           \* url the path of the URL it built, path the r.URL.Path the
           \* serving side got, parts what ServeHTTP split that path into
  gor,     \* the goroutines of a fleet of nodes: [at, pc, key, par, call, ret],
           \* at the node it runs on, par the goroutine whose request to
           \* this node it serves (0 for a caller of Get on the node)
  fm,      \* fm[n]: the map m of the coalescer of the group on node n
  frec,    \* the call structs of all these coalescers: [val, err, wg, by]
  fcache   \* fcache[n]: the main cache of the group on node n, key -> value

sfVars == <<pc, key, c, ret, m, calls>>
lruVars == <<lru, lpc, lop, seen>>
grpVars == <<mainCache, loads>>
ringVars == <<rmap, added, rgot>>
poolVars == <<pools, picked>>
peerVars == <<lpeer, picks, fetches, fails, clean, lastAdd, prevErr>>
muVars == <<pmu, pend, prev>>
regVars == <<groups, gheap, gres, got, called>>
byteVars == <<bufs, views, ext>>
httpVars == <<req, resp>>
lockVars == <<held>>
evVars == <<oev>>
tripVars == <<trip>>
fleetVars == <<gor, fm, frec, fcache>>
extVars == <<muVars, regVars, byteVars, httpVars, lockVars, evVars, tripVars, fleetVars>>
\* What the programs of the pool and of the registry leave alone.
notMu == <<sfVars, lruVars, grpVars, ringVars, peerVars, regVars, byteVars, httpVars, lockVars, evVars, tripVars, fleetVars>>
notReg == <<sfVars, lruVars, grpVars, hash, ringVars, poolVars, peerVars, muVars, byteVars, httpVars, lockVars, evVars, tripVars, fleetVars>>
notByte == <<sfVars, lruVars, grpVars, hash, ringVars, poolVars, peerVars, muVars, regVars, httpVars, lockVars, evVars, tripVars, fleetVars>>
\* What a Get on the node leaves alone besides the locks.
lockFrame == <<lruVars, hash, ringVars, muVars, poolVars, regVars, byteVars, httpVars, evVars, tripVars, fleetVars>>
notHttp == <<sfVars, lruVars, grpVars, hash, ringVars, poolVars, peerVars, muVars, regVars, byteVars, lockVars, evVars, tripVars, fleetVars>>
netVars == <<hash, ringVars, poolVars, peerVars, extVars>>
vars == <<pc, key, c, ret, m, calls, lru, lpc, lop, seen, mainCache, loads, extVars,
          hash, rmap, added, rgot, pools, picked,
          lpeer, picks, fetches, fails, clean, lastAdd, prevErr>>

NoRet == [val |-> NIL, err |-> NIL, call |-> 0, ran |-> FALSE]

\* -------------------------------------------------- consistenthash.Map
Replicas == 2        \* virtual nodes per peer (defaultReplicas, scaled down)

Peers == {"A", "B"}
PeerLists == {<< >>, <<"A">>, <<"B">>, <<"A", "B">>, <<"B", "A">>}

\* The name of the i-th virtual node of a peer: strconv.Itoa(i) + key.
Label(i, p) == ToString(i) \o p

\* The strings that are ever hashed, and the values a Hash can give them;
\* two strings may collide.
HStrings == Keys \cup {Label(i, p) : i \in 0 .. (Replicas - 1), p \in Peers}
HashVals == {0, 1, 2}
Hashes == [HStrings -> HashVals]

\* The empty map[int]string, and m.hashMap[hv] = p
NoMap == [x \in {} |-> ""]
MapPut(f, hv, p) == [x \in (DOMAIN f) \cup {hv} |-> IF x = hv THEN p ELSE f[x]]

MapNew(replicas) == [replicas |-> replicas, keys |-> << >>, hashMap |-> NoMap]

\* sort.Ints
RECURSIVE InsertInt(_, _)
InsertInt(srt, x) ==
  IF srt = << >> THEN <<x>>
  ELSE IF x <= Head(srt) THEN <<x>> \o srt
  ELSE <<Head(srt)>> \o InsertInt(Tail(srt), x)

RECURSIVE SortInts(_)
SortInts(sq) ==
  IF sq = << >> THEN << >> ELSE InsertInt(SortInts(Tail(sq)), Head(sq))

\* The inner loop of Add: the virtual nodes i, i+1, ... of peer p.
RECURSIVE AddReplicas(_, _, _, _)
AddReplicas(mp, h, p, i) ==
  IF i < mp.replicas
    THEN LET hv == h[Label(i, p)]
         IN  AddReplicas([mp EXCEPT !.keys = Append(@, hv),
                                    !.hashMap = MapPut(@, hv, p)], h, p, i + 1)
    ELSE mp

\* The outer loop of Add over the peers, in the order given.
RECURSIVE AddKeys(_, _, _)
AddKeys(mp, h, ps) ==
  IF ps = << >> THEN mp
  ELSE AddKeys(AddReplicas(mp, h, Head(ps), 0), h, Tail(ps))

MapAdd(mp, h, ps) == [AddKeys(mp, h, ps) EXCEPT !.keys = SortInts(@)]

\* Map.Add of consistent-hash/geecache/consistenthash: the virtual node i
\* of a peer is labelled string(i) + key, and string(i) of an int is the
\* one-character string with code point i (written here ^@, ^A, ...), not
\* the decimal numeral of i.
Chr(i) == <<"^@", "^A", "^B", "^C", "^D", "^E", "^F", "^G">>[i + 1]
CharLabel(i, p) == Chr(i) \o p
ChStrings == HStrings \cup { CharLabel(i, p) : i \in 0..(Replicas - 1), p \in Peers }

RECURSIVE AddReplicasCh(_, _, _, _)
AddReplicasCh(mp, h, p, i) ==
  IF i < mp.replicas
    THEN LET hv == h[CharLabel(i, p)]
         IN  AddReplicasCh([mp EXCEPT !.keys = Append(@, hv),
                                      !.hashMap = MapPut(@, hv, p)], h, p, i + 1)
    ELSE mp

RECURSIVE AddKeysCh(_, _, _)
AddKeysCh(mp, h, ps) ==
  IF ps = << >> THEN mp
  ELSE AddKeysCh(AddReplicasCh(mp, h, Head(ps), 0), h, Tail(ps))

MapAddCh(mp, h, ps) == [AddKeysCh(mp, h, ps) EXCEPT !.keys = SortInts(@)]

\* (mutant) the search for the first point strictly above the hash
RECURSIVE SearchLoopAbove(_, _, _, _)
SearchLoopAbove(ks, hv, i, j) ==
  IF i < j
    THEN LET hh == (i + j) \div 2
         IN  IF ks[hh + 1] > hv THEN SearchLoopAbove(ks, hv, i, hh)
                                ELSE SearchLoopAbove(ks, hv, hh + 1, j)
    ELSE i

\* sort.Search(n, f) for f(i) = ks[i] >= hv: binary search over [i, j),
\* indices from 0.
RECURSIVE SearchLoop(_, _, _, _)
SearchLoop(ks, hv, i, j) ==
  IF i < j
    THEN LET hh == (i + j) \div 2
         IN  IF ks[hh + 1] >= hv THEN SearchLoop(ks, hv, i, hh)
                                 ELSE SearchLoop(ks, hv, hh + 1, j)
    ELSE i

\* (mutant) Get without the wrap-around: past the last point nothing is found
MapGetNoWrap(mp, h, k) ==
  IF Len(mp.keys) = 0 THEN ""
  ELSE LET idx == SearchLoop(mp.keys, h[k], 0, Len(mp.keys))
       IN  IF idx = Len(mp.keys) THEN "" ELSE mp.hashMap[mp.keys[idx + 1]]

\* (mutant) Get without the test for an empty ring: idx % 0 panics
MapGetNoEmptyTest(mp, h, k) ==
  IF Len(mp.keys) = 0 THEN "panic"
  ELSE LET idx == SearchLoop(mp.keys, h[k], 0, Len(mp.keys))
       IN  mp.hashMap[mp.keys[(idx % Len(mp.keys)) + 1]]

MapGet(mp, h, k) ==
  IF Len(mp.keys) = 0 THEN ""
  ELSE LET idx == SearchLoop(mp.keys, h[k], 0, Len(mp.keys))
       IN  mp.hashMap[mp.keys[(idx % Len(mp.keys)) + 1]]

\* ------------------------------------------------------------- HTTPPool
Nodes == Peers
\* The node the group under study runs on.
Self == "A"
defaultBasePath == "/_geecache/"

\* The nil *consistenthash.Map of a pool before Set; the ring mp of a pool
\* after Set is the one-element sequence <<mp>>.
NoRing == << >>
Range(sq) == {sq[i] : i \in 1 .. Len(sq)}

NewHTTPPool(self) ==
  [self |-> self, basePath |-> defaultBasePath, peers |-> NoRing,
   httpGetters |-> NoMap]

httpGetter(p, peer) == [baseURL |-> peer \o p.basePath]

HTTPPoolSet(p, h, ps) ==
  [p EXCEPT !.peers = <<MapAdd(MapNew(Replicas), h, ps)>>,
            !.httpGetters = [x \in Range(ps) |-> httpGetter(p, x)]]

\* The nil PeerGetter.
NoGetter == [baseURL |-> NIL]

\* What PickPeer gives: (getter, true), (nil, false), or a panic.
NotFound == [ok |-> FALSE, getter |-> NoGetter, panic |-> FALSE]
Panic == [ok |-> FALSE, getter |-> NoGetter, panic |-> TRUE]

\* p.httpGetters[peer]: a Go map read gives the zero value, a nil *httpGetter,
\* for a peer that is not in the map.
GetterOf(p, peer) ==
  IF peer \in DOMAIN p.httpGetters THEN p.httpGetters[peer] ELSE NoGetter

\* p.peers.Get(key) on the nil ring of a pool that was never Set reads
\* m.keys through a nil pointer.
PickPeer(p, h, k) ==
  IF p.peers = NoRing THEN Panic
  ELSE LET peer == MapGet(p.peers[1], h, k)
       IN  IF peer # "" /\ peer # p.self
             THEN [ok |-> TRUE, getter |-> GetterOf(p, peer), panic |-> FALSE]
             ELSE NotFound

NoPick == [node |-> NIL, key |-> NIL, res |-> NotFound]

\* A group that has asked no peer yet.
PeerIdle ==
  /\ lpeer = [t \in Threads |-> NoGetter]
  /\ picks = [k \in Keys |-> 0]
  /\ fetches = [k \in Keys |-> 0]
  /\ fails = [k \in Keys |-> 0]
  /\ clean = [t \in Threads |-> TRUE]
  /\ lastAdd = 0
  /\ prevErr = [t \in Threads |-> 0]

\* The ring and the pools of a program that uses neither.
NoList == <<NIL>>

MuIdle ==
  /\ pmu = [n \in Nodes |-> FALSE]
  /\ pend = [n \in Nodes |-> NoList]
  /\ prev = [n \in Nodes |-> NoList]

\* The names groups are created and looked up under.
GroupNames == {"scores", "users"}

NoCall == [op |-> NIL, arg |-> NIL, getter |-> NIL, g |-> 0, panic |-> FALSE]

\* var groups = make(map[string]*Group), line 32.
RegIdle ==
  /\ groups = NoMap
  /\ gheap = << >>
  /\ gres = NoCall
  /\ got = [n \in GroupNames |-> 0]
  /\ called = {}

\* No byte array, no view.
ByteIdle ==
  /\ bufs = << >>
  /\ views = << >>
  /\ ext = {}

NoGet == [val |-> NIL, err |-> NIL]
NoResp == [status |-> 0, body |-> NIL, get |-> NoGet, panic |-> FALSE]

\* No request was served.
HttpIdle ==
  /\ req = << >>
  /\ resp = NoResp

\* The mutexes a Get takes: of the cache shell, of the coalescer and of the
\* pool that picks the peer.
Locks == {"c.mu", "g.mu", "p.mu"}

\* No mutex is held.
LockIdle == held = [l \in Locks |-> 0]

\* The entry of no element, and a store without an eviction callback.
NoEntry == [key |-> NIL, value |-> NIL]
EvIdle == oev = [fn |-> FALSE, kv |-> NoEntry, calls |-> << >>]

\* No httpGetter has sent a request.
NoTrip == [group |-> << >>, key |-> << >>, url |-> << >>, path |-> << >>,
           parts |-> << >>, at |-> "idle"]
TripIdle == trip = NoTrip

\* The goroutines of the fleet, and a fleet in which none has started.
NFleet == 3
Fleet == 1..NFleet
NoVal == [of |-> NIL, from |-> NIL]
NoGor == [at |-> NIL, pc |-> "free", key |-> NIL, par |-> 0, call |-> 0,
          ret |-> [val |-> NoVal, err |-> NIL]]
FleetIdle ==
  /\ gor = [t \in Fleet |-> NoGor]
  /\ fm = [n \in Nodes |-> [x \in {} |-> 0]]
  /\ frec = << >>
  /\ fcache = [n \in Nodes |-> [x \in {} |-> NoVal]]

ExtIdle == MuIdle /\ RegIdle /\ ByteIdle /\ HttpIdle /\ LockIdle /\ EvIdle /\ TripIdle /\ FleetIdle

NetIdle ==
  /\ PeerIdle
  /\ ExtIdle
  /\ hash = [x \in HStrings |-> 0]
  /\ rmap = MapNew(Replicas)
  /\ added = {}
  /\ rgot = [k \in Keys |-> NIL]
  /\ pools = [n \in Nodes |-> NewHTTPPool(n)]
  /\ picked = NoPick

\* ------------------------------------------------- singleflight.Group.Do

\* new(call); c.wg.Add(1)
NewCall == [val |-> NIL, err |-> NIL, wg |-> 1]

\* if c, ok := g.m[key]; ok
InFlight(k) == k \in DOMAIN m

\* delete(g.m, key)
MapDelete(mm, k) == [x \in (DOMAIN mm) \ {k} |-> mm[x]]

\* (mutant) Do without the lookup of lines 32-36: every caller creates a record
DoLockBuggy(t) ==
  /\ pc[t] = "Do"
  /\ calls' = Append(calls, NewCall)
  /\ c' = [c EXCEPT ![t] = Len(calls) + 1]
  /\ m' = [x \in (DOMAIN m) \cup {key[t]} |->
             IF x = key[t] THEN Len(calls) + 1 ELSE m[x]]
  /\ pc' = [pc EXCEPT ![t] = "fn"]
  /\ UNCHANGED <<key, ret>>

\* Lines 26-42, one critical section of g.mu: attach to the record of
\* key[t] when there is one, else create and register a new one.
DoLock(t) ==
  /\ pc[t] = "Do"
  /\ IF InFlight(key[t])
       THEN /\ c' = [c EXCEPT ![t] = m[key[t]]]
            /\ pc' = [pc EXCEPT ![t] = "Wait"]
            /\ UNCHANGED <<m, calls>>
       ELSE /\ calls' = Append(calls, NewCall)
            /\ c' = [c EXCEPT ![t] = Len(calls) + 1]
            /\ m' = [x \in (DOMAIN m) \cup {key[t]} |->
                       IF x = key[t] THEN Len(calls) + 1 ELSE m[x]]
            /\ pc' = [pc EXCEPT ![t] = "fn"]
  /\ UNCHANGED <<key, ret>>

\* Line 45: c.val, c.err = fn(), fn returning out.
FnReturn(t, out) ==
  /\ pc[t] = "fn"
  /\ calls' = [calls EXCEPT ![c[t]].val = out.val, ![c[t]].err = out.err]
  /\ pc' = [pc EXCEPT ![t] = "Done"]
  /\ UNCHANGED <<key, c, ret, m>>

\* Line 45, fn panicking: Do has no defer, so the goroutine unwinds out of
\* Do with the record still registered and its WaitGroup still at 1.
FnPanic(t) ==
  /\ pc[t] = "fn"
  /\ pc' = [pc EXCEPT ![t] = "panicked"]
  /\ UNCHANGED <<key, c, ret, m, calls>>

\* Line 46: c.wg.Done()
WgDone(t) ==
  /\ pc[t] = "Done"
  /\ calls' = [calls EXCEPT ![c[t]].wg = @ - 1]
  /\ pc' = [pc EXCEPT ![t] = "Delete"]
  /\ UNCHANGED <<key, c, ret, m>>

\* Lines 49-51: g.mu.Lock(); delete(g.m, key); g.mu.Unlock()
DoDelete(t) ==
  /\ pc[t] = "Delete"
  /\ m' = MapDelete(m, key[t])
  /\ pc' = [pc EXCEPT ![t] = "Return"]
  /\ UNCHANGED <<key, c, ret, calls>>

\* Line 54: return c.val, c.err
DoReturn(t) ==
  /\ pc[t] = "Return"
  /\ ret' = [ret EXCEPT ![t] = [val |-> calls[c[t]].val, err |-> calls[c[t]].err,
                                call |-> c[t], ran |-> TRUE]]
  /\ c' = [c EXCEPT ![t] = 0]
  /\ pc' = [pc EXCEPT ![t] = "idle"]
  /\ UNCHANGED <<key, m, calls>>

\* c.wg.Wait() returns once the counter is 0.
WaitReady(t) == calls[c[t]].wg = 0

\* (mutant) the waiter reads c.val, c.err without waiting for c.wg
DoWaitNoWait(t) ==
  /\ pc[t] = "Wait"
  /\ ret' = [ret EXCEPT ![t] = [val |-> calls[c[t]].val, err |-> calls[c[t]].err,
                                call |-> c[t], ran |-> FALSE]]
  /\ c' = [c EXCEPT ![t] = 0]
  /\ pc' = [pc EXCEPT ![t] = "idle"]
  /\ UNCHANGED <<key, m, calls>>

\* Lines 34-35: c.wg.Wait(); return c.val, c.err
DoWait(t) ==
  /\ pc[t] = "Wait"
  /\ WaitReady(t)
  /\ ret' = [ret EXCEPT ![t] = [val |-> calls[c[t]].val, err |-> calls[c[t]].err,
                                call |-> c[t], ran |-> FALSE]]
  /\ c' = [c EXCEPT ![t] = 0]
  /\ pc' = [pc EXCEPT ![t] = "idle"]
  /\ UNCHANGED <<key, m, calls>>

\* A goroutine calls g.Do(k, fn).  The number of records one run creates is
\* capped: every call that has not yet taken the lock may create one.
CallDo(t, k) ==
  /\ pc[t] = "idle"
  /\ Len(calls) + Cardinality({u \in Threads : pc[u] = "Do"}) < MaxCalls
  /\ key' = [key EXCEPT ![t] = k]
  /\ ret' = [ret EXCEPT ![t] = NoRet]
  /\ pc' = [pc EXCEPT ![t] = "Do"]
  /\ UNCHANGED <<c, m, calls>>

SFInit ==
  /\ pc = [t \in Threads |-> "idle"]
  /\ key = [t \in Threads |-> "k1"]
  /\ c = [t \in Threads |-> 0]
  /\ ret = [t \in Threads |-> NoRet]
  /\ m = << >>
  /\ calls = << >>

LruIdle ==
  /\ lru = [maxBytes |-> 0, nbytes |-> 0, ll |-> << >>, cache |-> << >>,
            elem |-> << >>]
  /\ lpc = "idle"
  /\ lop = [op |-> "New", key |-> "", value |-> "", found |-> FALSE, n |-> 0]
  /\ seen = << >>

GrpIdle ==
  /\ mainCache = [lru |-> NoStore, cacheBytes |-> 0]
  /\ loads = [k \in Keys |-> 0]

SFNext ==
  \/ \E t \in Threads, k \in Keys : CallDo(t, k) /\ UNCHANGED <<lruVars, grpVars, netVars>>
  \/ \E t \in Threads : DoLock(t) /\ UNCHANGED <<lruVars, grpVars, netVars>>
  \/ \E t \in Threads, out \in Outcomes : FnReturn(t, out) /\ UNCHANGED <<lruVars, grpVars, netVars>>
  \/ \E t \in Threads : FnPanic(t) /\ UNCHANGED <<lruVars, grpVars, netVars>>
  \/ \E t \in Threads : WgDone(t) /\ UNCHANGED <<lruVars, grpVars, netVars>>
  \/ \E t \in Threads : DoDelete(t) /\ UNCHANGED <<lruVars, grpVars, netVars>>
  \/ \E t \in Threads : DoReturn(t) /\ UNCHANGED <<lruVars, grpVars, netVars>>
  \/ \E t \in Threads : DoWait(t) /\ UNCHANGED <<lruVars, grpVars, netVars>>

InitSF == SFInit /\ LruIdle /\ GrpIdle /\ NetIdle

SpecSF == InitSF /\ [][SFNext]_vars

\* ------------------------------------------------------------- lru.Cache
\* ll is the container/list, front first, of element ids; elem[e] is the
\* *entry of element e; cache maps a key to its element.

LKeys == {"a", "b", "cc"}
LVals == {"", "x", "yyy"}

\* New(maxBytes, onEvicted)
LruNew(maxBytes) ==
  [maxBytes |-> maxBytes, nbytes |-> 0, ll |-> << >>, cache |-> << >>,
   elem |-> << >>]

\* The element a PushFront allocates: the first id that is not in use.
FreshElem(l) ==
  CHOOSE e \in 1..(Cardinality(DOMAIN l.elem) + 1) :
    /\ e \notin DOMAIN l.elem
    /\ \A f \in 1..(e - 1) : f \in DOMAIN l.elem

\* list.MoveToFront / list.PushFront / list.Remove / list.Back
MoveToFront(ll, e) == <<e>> \o SelectSeq(ll, LAMBDA x : x # e)
PushFront(ll, e) == <<e>> \o ll
ListRemove(ll, e) == SelectSeq(ll, LAMBDA x : x # e)
Back(ll) == ll[Len(ll)]

\* (mutant) the update branch of Add forgets the byte counter
LruAddWriteNoCount(l, k, v) ==
  IF k \in DOMAIN l.cache
    THEN [l EXCEPT !.ll = MoveToFront(l.ll, l.cache[k]),
                   !.elem[l.cache[k]].value = v]
    ELSE LET e == FreshElem(l) IN
         [l EXCEPT !.ll = PushFront(l.ll, e),
                   !.elem = [x \in (DOMAIN l.elem) \cup {e} |->
                               IF x = e THEN [key |-> k, value |-> v]
                                        ELSE l.elem[x]],
                   !.cache = [x \in (DOMAIN l.cache) \cup {k} |->
                               IF x = k THEN e ELSE l.cache[x]],
                   !.nbytes = l.nbytes + Len(k) + Len(v)]

\* (mutant) Add pushes a new element even when the key is present
LruAddWriteDup(l, k, v) ==
  LET e == FreshElem(l) IN
  [l EXCEPT !.ll = PushFront(l.ll, e),
            !.elem = [x \in (DOMAIN l.elem) \cup {e} |->
                        IF x = e THEN [key |-> k, value |-> v]
                                 ELSE l.elem[x]],
            !.cache = [x \in (DOMAIN l.cache) \cup {k} |->
                        IF x = k THEN e ELSE l.cache[x]],
            !.nbytes = l.nbytes + Len(k) + Len(v)]

\* Add, lines 38-51: update the entry of a present key and move it to the
\* front, or push a new entry to the front and register it.
LruAddWrite(l, k, v) ==
  IF k \in DOMAIN l.cache
    THEN [l EXCEPT !.ll = MoveToFront(l.ll, l.cache[k]),
                   !.nbytes = l.nbytes + Len(v) - Len(l.elem[l.cache[k]].value),
                   !.elem[l.cache[k]].value = v]
    ELSE LET e == FreshElem(l) IN
         [l EXCEPT !.ll = PushFront(l.ll, e),
                   !.elem = [x \in (DOMAIN l.elem) \cup {e} |->
                               IF x = e THEN [key |-> k, value |-> v]
                                        ELSE l.elem[x]],
                   !.cache = [x \in (DOMAIN l.cache) \cup {k} |->
                               IF x = k THEN e ELSE l.cache[x]],
                   !.nbytes = l.nbytes + Len(k) + Len(v)]

\* (mutant) the loop condition without the test for an unbounded store
LruOverNoZero(l) == l.maxBytes < l.nbytes

\* (mutant) the loop stops one byte early
LruOverOffByOne(l) == l.maxBytes # 0 /\ l.maxBytes < l.nbytes - 1

\* (mutant) the loop never evicts the last element of the list
LruOverKeepOne(l) == l.maxBytes # 0 /\ l.maxBytes < l.nbytes /\ Len(l.ll) > 1

\* Add, line 54: c.maxBytes != 0 && c.maxBytes < c.nbytes
LruOver(l) == l.maxBytes # 0 /\ l.maxBytes < l.nbytes

\* RemoveOldest, lines 72-84: unlink the back element, delete its key from
\* the map, subtract its size.  An empty list is left alone.
LruRemoveOldest(l) ==
  IF Len(l.ll) = 0 THEN l
  ELSE LET e == Back(l.ll) IN
       [l EXCEPT !.ll = ListRemove(l.ll, e),
                 !.cache = [x \in (DOMAIN l.cache) \ {l.elem[e].key} |-> l.cache[x]],
                 !.elem = [x \in (DOMAIN l.elem) \ {e} |-> l.elem[x]],
                 !.nbytes = l.nbytes - (Len(l.elem[e].key) + Len(l.elem[e].value))]

\* (mutant) Get that finds the key but leaves it where it is in the list
LruTouchNoMove(l, k) == l

\* Get, lines 60-69: a present key is moved to the front.
LruHas(l, k) == k \in DOMAIN l.cache
LruValue(l, k) == l.elem[l.cache[k]].value
LruTouch(l, k) ==
  IF LruHas(l, k) THEN [l EXCEPT !.ll = MoveToFront(l.ll, l.cache[k])] ELSE l

\* Len
LruLen(l) == Len(l.ll)

\* ---- the store driven by one caller (its contract is single-threaded)

\* The record of accesses: key k was just accessed (by an Add or a hit of
\* Get), and only the keys still resident in store l are kept.
Accessed(sn, k, kind) ==
  <<[key |-> k, by |-> kind]>> \o SelectSeq(sn, LAMBDA x : x.key # k)
Resident(sn, l) == SelectSeq(sn, LAMBDA x : x.key \in DOMAIN l.cache)

\* lop.n counts the entries the loop of the last Add has evicted.
\* Add(k, v): the write, then the loop of lines 54-56, one iteration a step.
Add(k, v) ==
  /\ lpc = "idle"
  /\ lru' = LruAddWrite(lru, k, v)
  /\ lop' = [op |-> "Add", key |-> k, value |-> v, found |-> FALSE, n |-> 0]
  /\ lpc' = IF LruOver(lru') THEN "evict" ELSE "idle"
  /\ seen' = Accessed(seen, k, "Add")

AddEvict ==
  /\ lpc = "evict"
  /\ lru' = LruRemoveOldest(lru)
  /\ lpc' = IF LruOver(lru') THEN "evict" ELSE "idle"
  /\ lop' = [lop EXCEPT !.n = IF Len(lru.ll) > 0 THEN @ + 1 ELSE @]
  /\ seen' = Resident(seen, lru')

Get(k) ==
  /\ lpc = "idle"
  /\ lru' = LruTouch(lru, k)
  /\ lop' = [op |-> "Get", key |-> k,
             value |-> IF LruHas(lru, k) THEN LruValue(lru, k) ELSE "",
             found |-> LruHas(lru, k), n |-> 0]
  /\ seen' = IF LruHas(lru, k) THEN Accessed(seen, k, "Get") ELSE seen
  /\ UNCHANGED lpc

RemoveOldest ==
  /\ lpc = "idle"
  /\ lru' = LruRemoveOldest(lru)
  /\ lop' = [op |-> "RemoveOldest", key |-> "", value |-> "", found |-> FALSE, n |-> 0]
  /\ seen' = Resident(seen, lru')
  /\ UNCHANGED lpc

\* Capacities New is called with: unbounded, a positive bound, a negative one.
LruCap == 3
Capacities == {0, LruCap, 0 - 1}

LruInit ==
  /\ \E cap \in Capacities : lru = LruNew(cap)
  /\ lpc = "idle"
  /\ lop = [op |-> "New", key |-> "", value |-> "", found |-> FALSE, n |-> 0]
  /\ seen = << >>
  /\ SFInit
  /\ GrpIdle
  /\ NetIdle

LruNext ==
  \/ \E k \in LKeys, v \in LVals : Add(k, v) /\ UNCHANGED <<sfVars, grpVars, netVars>>
  \/ AddEvict /\ UNCHANGED <<sfVars, grpVars, netVars>>
  \/ \E k \in LKeys : Get(k) /\ UNCHANGED <<sfVars, grpVars, netVars>>
  \/ RemoveOldest /\ UNCHANGED <<sfVars, grpVars, netVars>>

SpecLru == LruInit /\ [][LruNext]_vars

\* The same store with a caller that, once inside the loop of Add, keeps
\* running it: the goroutine inside Add is scheduled again and again.
LruLoop == AddEvict /\ UNCHANGED <<sfVars, grpVars, netVars>>
SpecLruFair == LruInit /\ [][LruNext]_vars /\ WF_vars(LruLoop)

\* ---- the store with an eviction callback (New(maxBytes, onEvicted))
\* RemoveOldest, lines 72-84, runs in two steps when c.OnEvicted is set:
\* the removal (lines 73-78), then the call c.OnEvicted(kv.key, kv.value)
\* (lines 80-82), which is modelled by recording its arguments.

\* Where RemoveOldest returns to: the loop of Add, or the caller.
AfterRemove(l, op) == IF op = "Add" /\ LruOver(l) THEN "evict" ELSE "idle"

\* (mutant) RemoveOldest that calls the callback before it removes anything
RemoveStepLate(op, o) ==
  /\ lru' = IF Len(lru.ll) > 0 /\ o.fn THEN lru ELSE LruRemoveOldest(lru)
  /\ seen' = Resident(seen, lru')
  /\ IF Len(lru.ll) > 0 /\ o.fn
       THEN /\ lpc' = "cb"
            /\ oev' = [o EXCEPT !.kv = lru.elem[Back(lru.ll)]]
       ELSE /\ lpc' = AfterRemove(lru', op)
            /\ oev' = o

\* Lines 73-79 inside operation op, the callback record being o: the
\* removal, and whether the callback is called next.
RemoveStep(op, o) ==
  /\ lru' = LruRemoveOldest(lru)
  /\ seen' = Resident(seen, lru')
  /\ IF Len(lru.ll) > 0 /\ o.fn
       THEN /\ lpc' = "cb"
            /\ oev' = [o EXCEPT !.kv = lru.elem[Back(lru.ll)]]
       ELSE /\ lpc' = AfterRemove(lru', op)
            /\ oev' = o

\* Add(k, v) up to the loop.
EvAdd(k, v) ==
  /\ Add(k, v)
  /\ oev' = [oev EXCEPT !.calls = << >>]

\* One iteration of the loop of Add, up to the callback.
EvAddEvict ==
  /\ lpc = "evict"
  /\ RemoveStep("Add", oev)
  /\ lop' = [lop EXCEPT !.n = IF Len(lru.ll) > 0 THEN @ + 1 ELSE @]

EvGet(k) ==
  /\ Get(k)
  /\ oev' = [oev EXCEPT !.calls = << >>]

\* RemoveOldest called by the user of the store, up to the callback.
EvRemoveOldest ==
  /\ lpc = "idle"
  /\ RemoveStep("RemoveOldest", [oev EXCEPT !.calls = << >>])
  /\ lop' = [op |-> "RemoveOldest", key |-> "", value |-> "", found |-> FALSE,
             n |-> IF Len(lru.ll) > 0 THEN 1 ELSE 0]

\* Lines 80-82: c.OnEvicted(kv.key, kv.value), then RemoveOldest returns.
OnEvicted ==
  /\ lpc = "cb"
  /\ oev' = [oev EXCEPT !.calls = Append(@, oev.kv), !.kv = NoEntry]
  /\ lpc' = AfterRemove(lru, lop.op)
  /\ UNCHANGED <<lru, lop, seen>>

\* New(maxBytes, onEvicted) with and without a callback.
EvInit ==
  /\ \E cap \in Capacities : lru = LruNew(cap)
  /\ lpc = "idle"
  /\ lop = [op |-> "New", key |-> "", value |-> "", found |-> FALSE, n |-> 0]
  /\ seen = << >>
  /\ \E f \in BOOLEAN : oev = [fn |-> f, kv |-> NoEntry, calls |-> << >>]
  /\ SFInit
  /\ GrpIdle
  /\ PeerIdle
  /\ MuIdle /\ RegIdle /\ ByteIdle /\ HttpIdle /\ LockIdle /\ TripIdle /\ FleetIdle
  /\ hash = [x \in HStrings |-> 0]
  /\ rmap = MapNew(Replicas)
  /\ added = {}
  /\ rgot = [k \in Keys |-> NIL]
  /\ pools = [n \in Nodes |-> NewHTTPPool(n)]
  /\ picked = NoPick

notEv == <<sfVars, grpVars, hash, ringVars, poolVars, peerVars, muVars, regVars, byteVars, httpVars, lockVars, tripVars, fleetVars>>

EvNext ==
  \/ \E k \in LKeys, v \in LVals : EvAdd(k, v) /\ UNCHANGED notEv
  \/ EvAddEvict /\ UNCHANGED notEv
  \/ \E k \in LKeys : EvGet(k) /\ UNCHANGED notEv
  \/ EvRemoveOldest /\ UNCHANGED notEv
  \/ OnEvicted /\ UNCHANGED notEv

SpecEvict == EvInit /\ [][EvNext]_vars

\* ---------------------------------------------- claims on the coalescer

\* The goroutine that created record id is still inside fn.
FnRunning(id) == \E u \in Threads : c[u] = id /\ pc[u] = "fn"

\* fn of record id has returned normally (line 45 has completed).
FnReturned(id) ==
  \/ calls[id].wg = 0
  \/ \E u \in Threads : c[u] = id /\ pc[u] = "Done"

\* C1: while a record for a key is in flight only its creator runs fn: no
\* two goroutines are inside fn for one key, a goroutine inside fn owns the
\* registered record of its key, and nobody else is between fn and the
\* delete for that key.
C1_OneFnPerKey ==
  \A t1 \in Threads :
    pc[t1] = "fn" =>
      /\ InFlight(key[t1]) /\ m[key[t1]] = c[t1]
      /\ \A t2 \in Threads \ {t1} :
           key[t2] = key[t1] => pc[t2] \notin {"fn", "Done", "Delete"}

C1_Witness ==
  \E t1, t2 \in Threads :
    /\ t1 # t2 /\ pc[t1] = "fn" /\ pc[t2] = "Wait"
    /\ key[t1] = key[t2] /\ c[t1] = c[t2]

\* C2: a waiter that has returned from Do returned after the record's
\* WaitGroup reached 0, and returned exactly the (val, err) that the
\* creator's fn stored in the record; so did the creator.
C2_WaitersGetResult ==
  \A t \in Threads :
    ret[t].call # 0 =>
      /\ ret[t].val = calls[ret[t].call].val
      /\ ret[t].err = calls[ret[t].call].err
      /\ calls[ret[t].call].wg = 0

C2_Witness ==
  \E t1, t2 \in Threads :
    /\ ret[t1].ran /\ ~ret[t2].ran /\ ret[t2].call # 0
    /\ ret[t1].call = ret[t2].call
    /\ ret[t2].val = "v2" /\ ret[t2].err = NIL

\* Goroutine t created the record it holds and has not yet deleted it.
Owns(t) == pc[t] \in {"fn", "Done", "Delete"}

\* The first two parts of C38: no key has two records at a time, and a
\* goroutine about to delete finds its own record under its key.
OwnRecordDeleted ==
  /\ \A t1 \in Threads : \A t2 \in Threads \ {t1} :
       (Owns(t1) /\ Owns(t2)) => key[t1] # key[t2]
  /\ \A t \in Threads :
       Owns(t) => InFlight(key[t]) /\ m[key[t]] = c[t]

\* The third part when no fn has panicked.
EmptyWhenAllReturned == (\A t \in Threads : pc[t] = "idle") => m = << >>

\* C38: no key has two records at a time, the delete at the end of a Do
\* call removes the record that this call created, and the map is empty
\* when no goroutine is inside Do.
C38_RecordOwnership ==
  /\ OwnRecordDeleted
  /\ (\A t \in Threads : pc[t] \in {"idle", "panicked"}) => m = << >>

\* C4 (as claimed): a Do call that takes the lock once the fn of the
\* registered record has returned does not attach to that record.
C4_NoStaleAttach ==
  [][\A t \in Threads :
       (pc[t] = "Do" /\ InFlight(key[t]) /\ FnReturned(m[key[t]]))
         => pc'[t] # "Wait"]_vars

\* C6 (as claimed): once the goroutine whose fn panicked has left Do, the
\* record it created is no longer registered and no waiter is still
\* blocked on it.
C6_PanicCleansUp ==
  \A t \in Threads :
    pc[t] = "panicked" =>
      /\ ~(InFlight(key[t]) /\ m[key[t]] = c[t])
      /\ \A u \in Threads : (pc[u] = "Wait" /\ c[u] = c[t]) => WaitReady(u)


\* ------------------------------------------------- cache shell (cache.go)

\* Add with its loop run to the end (lines 54-56).
RECURSIVE LruEvictLoop(_)
LruEvictLoop(l) == IF LruOver(l) THEN LruEvictLoop(LruRemoveOldest(l)) ELSE l

LruAdd(l, k, v) == LruEvictLoop(LruAddWrite(l, k, v))

\* (mutant) cache.add that makes a new store on every call
CacheAddAnew(sh, k, v) ==
  [sh EXCEPT !.lru = <<LruAdd(LruNew(sh.cacheBytes), k, v)>>]

\* cache.add: under c.mu, create the store on first use, then Add.
CacheAdd(sh, k, v) ==
  [sh EXCEPT !.lru = <<LruAdd(IF sh.lru = NoStore THEN LruNew(sh.cacheBytes)
                                                  ELSE sh.lru[1],
                              k, v)>>]

\* cache.get: under c.mu; a nil store is a miss, a hit moves the entry.
CacheHit(sh, k) == sh.lru # NoStore /\ LruHas(sh.lru[1], k)
CacheValue(sh, k) == LruValue(sh.lru[1], k)
CacheGet(sh, k) ==
  IF sh.lru = NoStore THEN sh ELSE [sh EXCEPT !.lru = <<LruTouch(sh.lru[1], k)>>]

\* ---------------------------------------------------- Group (geecache.go)
\* One group on one node, no peer picker registered (g.peers == nil).

\* The backing source: what the getter returns for a key when it succeeds.
LoaderValue(k) == IF k = "k1" THEN "x" ELSE "yy"

KeyRequired == "key is required"

\* (mutant) Get without the test for the empty key
GroupGetNoKeyCheck(t, k) ==
  /\ pc[t] = "idle"
  /\ Len(calls) + Cardinality({u \in Threads : pc[u] = "Do"}) < MaxCalls
  /\ key' = [key EXCEPT ![t] = k]
  /\ IF CacheHit(mainCache, k)
       THEN /\ ret' = [ret EXCEPT ![t] = [val |-> CacheValue(mainCache, k),
                                          err |-> NIL, call |-> 0, ran |-> FALSE]]
            /\ mainCache' = CacheGet(mainCache, k)
            /\ UNCHANGED pc
       ELSE /\ pc' = [pc EXCEPT ![t] = "Do"]
            /\ ret' = [ret EXCEPT ![t] = NoRet]
            /\ UNCHANGED mainCache
  /\ UNCHANGED <<c, m, calls, loads>>

\* (mutant) Get without the lookup in the cache
GroupGetNoHit(t, k) ==
  /\ pc[t] = "idle"
  /\ Len(calls) + Cardinality({u \in Threads : pc[u] = "Do"}) < MaxCalls
  /\ key' = [key EXCEPT ![t] = k]
  /\ IF k = ""
       THEN /\ ret' = [ret EXCEPT ![t] = [val |-> NIL, err |-> KeyRequired,
                                          call |-> 0, ran |-> FALSE]]
            /\ UNCHANGED pc
       ELSE /\ pc' = [pc EXCEPT ![t] = "Do"]
            /\ ret' = [ret EXCEPT ![t] = NoRet]
  /\ UNCHANGED <<c, m, calls, loads, mainCache>>

\* Group.Get, lines 65-78: reject the empty key; look the key up in the
\* main cache and return a hit; on a miss go on to g.load, which calls
\* g.loader.Do(key, ...).
GroupGet(t, k) ==
  /\ pc[t] = "idle"
  /\ Len(calls) + Cardinality({u \in Threads : pc[u] = "Do"}) < MaxCalls
  /\ key' = [key EXCEPT ![t] = k]
  /\ IF k = ""
       THEN /\ ret' = [ret EXCEPT ![t] = [val |-> NIL, err |-> KeyRequired,
                                          call |-> 0, ran |-> FALSE]]
            /\ UNCHANGED <<pc, mainCache>>
       ELSE IF CacheHit(mainCache, k)
         THEN /\ ret' = [ret EXCEPT ![t] = [val |-> CacheValue(mainCache, k),
                                            err |-> NIL, call |-> 0, ran |-> FALSE]]
              /\ mainCache' = CacheGet(mainCache, k)
              /\ UNCHANGED pc
         ELSE /\ pc' = [pc EXCEPT ![t] = "Do"]
              /\ ret' = [ret EXCEPT ![t] = NoRet]
              /\ UNCHANGED mainCache
  /\ UNCHANGED <<c, m, calls, loads>>

\* The closure of load, lines 93-103, with g.peers == nil: getLocally calls
\* g.getter.Get(key), line 120.
GetterCall(t) ==
  /\ pc[t] = "fn"
  /\ loads' = [loads EXCEPT ![key[t]] = @ + 1]
  /\ pc' = [pc EXCEPT ![t] = "getter"]
  /\ UNCHANGED <<key, c, ret, m, calls, mainCache>>

\* (mutant) getLocally that returns the bytes without populateCache
GetterOkNoPopulate(t) ==
  /\ pc[t] = "getter"
  /\ calls' = [calls EXCEPT ![c[t]].val = LoaderValue(key[t]), ![c[t]].err = NIL]
  /\ pc' = [pc EXCEPT ![t] = "Done"]
  /\ UNCHANGED <<key, c, ret, m, loads, mainCache>>

\* getLocally, lines 124-126, the getter having returned bytes: wrap them,
\* populateCache, and return them as the closure's result (Do, line 45).
GetterOk(t) ==
  /\ pc[t] = "getter"
  /\ mainCache' = CacheAdd(mainCache, key[t], LoaderValue(key[t]))
  /\ calls' = [calls EXCEPT ![c[t]].val = LoaderValue(key[t]), ![c[t]].err = NIL]
  /\ pc' = [pc EXCEPT ![t] = "Done"]
  /\ UNCHANGED <<key, c, ret, m, loads>>

\* getLocally, lines 121-123, the getter having returned an error: nothing
\* is cached and the error is the closure's result.
GetterErr(t) ==
  /\ pc[t] = "getter"
  /\ calls' = [calls EXCEPT ![c[t]].val = NIL, ![c[t]].err = "e1"]
  /\ pc' = [pc EXCEPT ![t] = "Done"]
  /\ UNCHANGED <<key, c, ret, m, mainCache, loads>>

\* The getter panicking inside the closure: the goroutine unwinds out of Do.
GetterPanic(t) ==
  /\ pc[t] = "getter"
  /\ pc' = [pc EXCEPT ![t] = "panicked"]
  /\ UNCHANGED <<key, c, ret, m, calls, mainCache, loads>>

\* NewGroup(name, cacheBytes, getter) with a capacity of 0 or LruCap bytes.
GroupInit ==
  /\ SFInit
  /\ LruIdle
  /\ NetIdle
  /\ \E cap \in {0, LruCap} : mainCache = [lru |-> NoStore, cacheBytes |-> cap]
  /\ loads = [k \in Keys |-> 0]

GroupNext ==
  \/ \E t \in Threads, k \in Keys \cup {""} : GroupGet(t, k) /\ UNCHANGED <<lruVars, netVars>>
  \/ \E t \in Threads : DoLock(t) /\ UNCHANGED <<lruVars, grpVars, netVars>>
  \/ \E t \in Threads : GetterCall(t) /\ UNCHANGED <<lruVars, netVars>>
  \/ \E t \in Threads : GetterOk(t) /\ UNCHANGED <<lruVars, netVars>>
  \/ \E t \in Threads : GetterErr(t) /\ UNCHANGED <<lruVars, netVars>>
  \/ \E t \in Threads : GetterPanic(t) /\ UNCHANGED <<lruVars, netVars>>
  \/ \E t \in Threads : WgDone(t) /\ UNCHANGED <<lruVars, grpVars, netVars>>
  \/ \E t \in Threads : DoDelete(t) /\ UNCHANGED <<lruVars, grpVars, netVars>>
  \/ \E t \in Threads : DoReturn(t) /\ UNCHANGED <<lruVars, grpVars, netVars>>
  \/ \E t \in Threads : DoWait(t) /\ UNCHANGED <<lruVars, grpVars, netVars>>

SpecGroup == GroupInit /\ [][GroupNext]_vars

\* -------------------------------------------------- claims on the store

RECURSIVE SumBytes(_, _)
SumBytes(l, s) ==
  IF s = << >> THEN 0
  ELSE Len(l.elem[Head(s)].key) + Len(l.elem[Head(s)].value)
         + SumBytes(l, Tail(s))

ListKeys(l) == {l.elem[l.ll[i]].key : i \in 1..Len(l.ll)}

\* A step in which goroutine t calls Group.Get with a key that is not empty.
GetStep(t) ==
  /\ pc[t] = "idle"
  /\ <<pc[t], ret[t], key[t]>>' # <<pc[t], ret[t], key[t]>>
  /\ key'[t] # ""

\* A step in which goroutine t returns from its getter with bytes, so that
\* getLocally calls populateCache and with it cache.add.
AddStep(t) == pc[t] = "getter" /\ pc'[t] = "Done" /\ calls'[c[t]].err = NIL

\* C32: a get on a shell whose store is unallocated is a miss (the Get goes
\* on to load) and leaves the store unallocated; only an add allocates the
\* store, with the shell's capacity; the capacity of the shell never
\* changes, and an add to an allocated store is an Add to that store with
\* everything it holds, never to a new one.
C32_LazyInit ==
  [][/\ mainCache'.cacheBytes = mainCache.cacheBytes
     /\ \A t \in Threads :
          (mainCache.lru = NoStore /\ GetStep(t)) =>
            /\ pc'[t] = "Do"
            /\ mainCache'.lru = NoStore
     /\ (mainCache.lru = NoStore /\ mainCache'.lru # NoStore) =>
          /\ \E t \in Threads : AddStep(t)
          /\ mainCache'.lru[1].maxBytes = mainCache.cacheBytes
     /\ mainCache.lru # NoStore =>
          /\ mainCache'.lru # NoStore
          /\ mainCache'.lru[1].maxBytes = mainCache.lru[1].maxBytes
          /\ \A t \in Threads :
               AddStep(t) =>
                 mainCache'.lru[1] =
                   LruAdd(mainCache.lru[1], key[t], LoaderValue(key[t]))]_vars

\* The store of an unbounded shell holds both keys: the second add found
\* the store of the first and added to it.
C32_Witness ==
  /\ mainCache.lru # NoStore
  /\ mainCache.cacheBytes = 0
  /\ ListKeys(mainCache.lru[1]) = Keys
  /\ \A k \in Keys : loads[k] = 1

\* The entries of the store that a step removes from its list.
Removed ==
  {lru.elem[lru.ll[i]] : i \in {j \in 1..Len(lru.ll) :
      \A n \in 1..Len(lru'.ll) : lru'.ll[n] # lru.ll[j]}}

\* Entry kv is gone from store l: no element of the list holds its key,
\* the map has no such key, and the counter is the sum over what is left.
Gone(l, kv) ==
  /\ \A i \in 1..Len(l.ll) : l.elem[l.ll[i]].key # kv.key
  /\ kv.key \notin DOMAIN l.cache
  /\ l.nbytes = SumBytes(l, l.ll)

\* C33: the callback is invoked only with the key and value of the entry
\* that the step before removed, in a state where that entry is off the
\* list, out of the map and subtracted from the counter; a store with a
\* callback invokes it after every removal of an entry, so once per
\* evicted entry, and nothing is invoked when no entry was removed.
C33_CallbackAfterRemoval ==
  [][/\ oev'.fn = oev.fn
     /\ Removed # {} =>
          /\ Cardinality(Removed) = 1
          /\ oev.fn => lpc' = "cb" /\ oev'.kv \in Removed
          /\ oev'.calls \in {oev.calls, << >>}
     /\ (lpc' = "cb" /\ lpc # "cb") => Removed # {}
     /\ lpc = "cb" =>
          /\ Gone(lru, oev.kv)
          /\ lru' = lru
          /\ oev'.calls = Append(oev.calls, oev.kv)
          /\ lpc' # "cb"
     /\ lpc # "cb" =>
          \/ oev'.calls = oev.calls
          \/ oev'.calls = << >> /\ lpc = "idle"
     /\ Len(oev'.calls) = IF oev.fn
                            THEN lop'.n - (IF lpc' = "cb" THEN 1 ELSE 0)
                            ELSE 0]_vars

\* One Add has evicted three entries and the callback was called with
\* each of them, oldest first, the added entry last.
C33_Witness ==
  /\ lpc = "idle" /\ lop.op = "Add" /\ lop.n = 3
  /\ Len(oev.calls) = 3
  /\ oev.calls[3] = [key |-> lop.key, value |-> lop.value]
  /\ Cardinality(Range(oev.calls)) = 3

\* C35: an Add that has entered its eviction loop leaves it: the loop of
\* lines 54-56 ends and Add returns, whatever the capacity of the store.
C35_AddTerminates == (lpc = "evict") ~> (lpc = "idle")

\* The same for the stores whose capacity is not negative.
AddTerminatesNonNeg == (lpc = "evict" /\ lru.maxBytes >= 0) ~> (lpc = "idle")

\* C7: the byte counter equals the sum of len(key) + len(value) over the
\* entries on the list, after every operation and every loop iteration.
C7_CounterIsSum == lru.nbytes = SumBytes(lru, lru.ll)

C7_Witness ==
  /\ lpc = "idle" /\ lop.op = "Add" /\ lop.n = 1
  /\ Len(lru.ll) = 2 /\ lru.nbytes = 3
  /\ \E i \in 1..Len(lru.ll) : lru.elem[lru.ll[i]].value = "x"

\* C8: when Add has returned, the capacity is 0 or the byte counter is at
\* most the capacity.
C8_AddBound ==
  (lpc = "idle" /\ lop.op = "Add") =>
    (lru.maxBytes = 0 \/ lru.nbytes <= lru.maxBytes)

C8_Witness ==
  /\ lpc = "idle" /\ lop.op = "Add" /\ lop.n = 2
  /\ lru.maxBytes = LruCap /\ lru.nbytes > 0

\* C9: the map and the list hold the same keys, every key has one element
\* and the map points at it, and Len is the number of keys.
C9_MapListAgree ==
  /\ ListKeys(lru) = DOMAIN lru.cache
  /\ \A i, j \in 1..Len(lru.ll) :
       (lru.ll[i] = lru.ll[j] \/ lru.elem[lru.ll[i]].key = lru.elem[lru.ll[j]].key)
         => i = j
  /\ \A k \in DOMAIN lru.cache :
       /\ \E i \in 1..Len(lru.ll) : lru.ll[i] = lru.cache[k]
       /\ lru.elem[lru.cache[k]].key = k
  /\ LruLen(lru) = Cardinality(DOMAIN lru.cache)

C9_Witness ==
  /\ lpc = "idle" /\ lop.op = "Get" /\ lop.found
  /\ LruLen(lru) = 2 /\ lru.maxBytes = LruCap
  /\ lru.elem[lru.ll[1]].key = lop.key

\* The last operation was an Add, now returned, of an entry that alone is
\* larger than a positive capacity.
OversizedAddReturned ==
  /\ lpc = "idle" /\ lop.op = "Add"
  /\ lru.maxBytes > 0
  /\ Len(lop.key) + Len(lop.value) > lru.maxBytes

\* C10 (as claimed): after an oversized Add exactly that entry is resident.
C10_OversizedResident ==
  OversizedAddReturned =>
    /\ DOMAIN lru.cache = {lop.key}
    /\ LruLen(lru) = 1

\* C10 (amended): after an oversized Add the store is empty: the loop evicts
\* every older entry and then the oversized entry itself.
C10_OversizedEvicted ==
  OversizedAddReturned =>
    /\ DOMAIN lru.cache = {}
    /\ LruLen(lru) = 0
    /\ lru.nbytes = 0

C10_Witness == OversizedAddReturned /\ lop.n = 2 /\ lop.key = "cc"

\* C11: every key that leaves the store, in an eviction step of Add or in
\* RemoveOldest, is the resident key whose last access (Add, update or hit
\* of Get) is the oldest.
C11_EvictsOldestAccess ==
  [][\A k \in (DOMAIN lru.cache) \ (DOMAIN lru'.cache) :
       /\ seen # << >>
       /\ k = seen[Len(seen)].key]_vars

\* An Add has evicted one entry and returned, and behind the new entry
\* sits an entry whose last access was a Get.
C11_Witness ==
  /\ lpc = "idle" /\ lop.op = "Add" /\ lop.n = 1
  /\ lru.maxBytes = LruCap
  /\ Len(seen) = 2 /\ seen[1].key = lop.key
  /\ seen[2].by = "Get"

\* C12: in a store of capacity 0 a step of Add removes no key, leaves the
\* added key resident with the added value, and Add returns without
\* entering its eviction loop.
C12_ZeroNeverEvicts ==
  [][(lru.maxBytes = 0 /\ lop'.op = "Add") =>
       /\ DOMAIN lru.cache \subseteq DOMAIN lru'.cache
       /\ LruHas(lru', lop'.key)
       /\ LruValue(lru', lop'.key) = lop'.value
       /\ lpc' = "idle" /\ lop'.n = 0]_vars

C12_Witness ==
  /\ lru.maxBytes = 0 /\ lop.op = "Add" /\ lpc = "idle"
  /\ LruLen(lru) = Cardinality(LKeys)
  /\ \A k \in LKeys : LruValue(lru, k) = "yyy"

\* -------------------------------------------------- claims on the group

RECURSIVE SumLoads(_)
SumLoads(ks) ==
  IF ks = {} THEN 0
  ELSE LET k == CHOOSE x \in ks : TRUE IN loads[k] + SumLoads(ks \ {k})

\* t has returned from a Get that missed and went through the coalescer.
ReturnedFromLoad(t) == pc[t] = "idle" /\ ret[t].call # 0

C5_RecordGoneOnError ==
  \A t \in Threads :
    (ReturnedFromLoad(t) /\ ret[t].err # NIL)
      => ~(InFlight(key[t]) /\ m[key[t]] = ret[t].call)

\* ------------------------------------------ the hash ring as a program
\* m.Add(ps...) on the ring, as long as the ring has room for more points.
RingAdd(ps) ==
  /\ Len(rmap.keys) < Replicas * Cardinality(Peers)
  /\ rmap' = MapAdd(rmap, hash, ps)
  /\ added' = added \cup Range(ps)
  /\ rgot' = [k \in Keys |-> NIL]
  /\ UNCHANGED hash

\* m.Get(k): the ring is only read.
RingGet(k) ==
  /\ rgot' = [rgot EXCEPT ![k] = MapGet(rmap, hash, k)]
  /\ UNCHANGED <<hash, rmap, added>>

\* New(replicas, fn) for 0, 1 or Replicas virtual nodes and any hash fn.
RingInit ==
  /\ SFInit /\ LruIdle /\ GrpIdle
  /\ hash \in Hashes
  /\ \E r \in {0, 1, Replicas} : rmap = MapNew(r)
  /\ added = {}
  /\ rgot = [k \in Keys |-> NIL]
  /\ pools = [n \in Nodes |-> NewHTTPPool(n)]
  /\ picked = NoPick
  /\ PeerIdle
  /\ ExtIdle

RingNext ==
  \/ \E ps \in PeerLists : RingAdd(ps) /\ UNCHANGED <<sfVars, lruVars, grpVars, poolVars, peerVars, extVars>>
  \/ \E k \in Keys : RingGet(k) /\ UNCHANGED <<sfVars, lruVars, grpVars, poolVars, peerVars, extVars>>

SpecRing == RingInit /\ [][RingNext]_vars

\* ---------------------- the ring of consistent-hash/geecache as a program
\* m.Add(ps...), lines 39-51, as long as the ring has room for more points.
RingChAdd(ps) ==
  /\ Len(rmap.keys) < Replicas * Cardinality(Peers)
  /\ rmap' = MapAddCh(rmap, hash, ps)
  /\ added' = added \cup Range(ps)
  /\ rgot' = [k \in Keys |-> NIL]
  /\ UNCHANGED hash

\* New(Replicas, fn) for any hash fn with two values.
RingChInit ==
  /\ SFInit /\ LruIdle /\ GrpIdle
  /\ hash \in [ChStrings -> {0, 1}]
  /\ rmap = MapNew(Replicas)
  /\ added = {}
  /\ rgot = [k \in Keys |-> NIL]
  /\ pools = [n \in Nodes |-> NewHTTPPool(n)]
  /\ picked = NoPick
  /\ PeerIdle
  /\ ExtIdle

RingChNext ==
  \/ \E ps \in PeerLists : RingChAdd(ps) /\ UNCHANGED <<sfVars, lruVars, grpVars, poolVars, peerVars, extVars>>
  \/ \E k \in Keys : RingGet(k) /\ UNCHANGED <<sfVars, lruVars, grpVars, poolVars, peerVars, extVars>>

SpecRingCh == RingChInit /\ [][RingChNext]_vars

\* ------------------------------------------- a fleet of pools as a program
\* pools[n].Set(ps...), lines 79-89.
PoolSet(n, ps) ==
  /\ pools' = [pools EXCEPT ![n] = HTTPPoolSet(@, hash, ps)]
  /\ picked' = NoPick
  /\ UNCHANGED hash

\* pools[n].PickPeer(k), lines 92-101.
PoolPick(n, k) ==
  /\ picked' = [node |-> n, key |-> k, res |-> PickPeer(pools[n], hash, k)]
  /\ UNCHANGED <<hash, pools>>

\* NewHTTPPool(n) on every node n, any hash function.
PoolInit ==
  /\ SFInit /\ LruIdle /\ GrpIdle
  /\ hash \in Hashes
  /\ rmap = MapNew(Replicas)
  /\ added = {}
  /\ rgot = [k \in Keys |-> NIL]
  /\ pools = [n \in Nodes |-> NewHTTPPool(n)]
  /\ picked = NoPick
  /\ PeerIdle
  /\ ExtIdle

PoolNext ==
  \/ \E n \in Nodes, ps \in PeerLists : PoolSet(n, ps) /\ UNCHANGED <<sfVars, lruVars, grpVars, ringVars, peerVars, extVars>>
  \/ \E n \in Nodes, k \in Keys : PoolPick(n, k) /\ UNCHANGED <<sfVars, lruVars, grpVars, ringVars, peerVars, extVars>>

SpecPool == PoolInit /\ [][PoolNext]_vars

\* ------------------------------ one pool, statement by statement, with p.mu
\* Hash functions that give every virtual node of a peer the same point.
PeerHashes == { h \in Hashes : \A i \in 0..(Replicas - 1), p \in Peers :
                                 h[Label(i, p)] = h[Label(0, p)] }

\* Set, lines 80-83: p.mu.Lock(), then the new ring and its Add.
SetRing(n, ps) ==
  /\ ~pmu[n]
  /\ pmu' = [pmu EXCEPT ![n] = TRUE]
  /\ pools' = [pools EXCEPT ![n].peers = <<MapAdd(MapNew(Replicas), hash, ps)>>]
  /\ pend' = [pend EXCEPT ![n] = ps]
  /\ prev' = [prev EXCEPT ![n] = pend[n]]
  /\ picked' = NoPick
  /\ UNCHANGED hash

\* Set, lines 84-88, and the deferred p.mu.Unlock() of line 81.
SetGetters(n) ==
  /\ pmu[n]
  /\ pools' = [pools EXCEPT ![n].httpGetters =
                 [x \in Range(pend[n]) |-> httpGetter(pools[n], x)]]
  /\ pmu' = [pmu EXCEPT ![n] = FALSE]
  /\ UNCHANGED <<hash, picked, pend, prev>>

\* PickPeer without its lines 93-94.
PickUnlocked(n, k) ==
  /\ PoolPick(n, k)
  /\ UNCHANGED muVars

\* PickPeer, lines 92-101: from p.mu.Lock() to the deferred Unlock.
PickLocked(n, k) ==
  /\ ~pmu[n]
  /\ PoolPick(n, k)
  /\ UNCHANGED muVars

\* NewHTTPPool(Self); the other nodes' pools are not used.
MuInit ==
  /\ SFInit /\ LruIdle /\ GrpIdle
  /\ hash \in PeerHashes
  /\ rmap = MapNew(Replicas)
  /\ added = {}
  /\ rgot = [k \in Keys |-> NIL]
  /\ pools = [n \in Nodes |-> NewHTTPPool(n)]
  /\ picked = NoPick
  /\ PeerIdle
  /\ MuIdle /\ RegIdle /\ ByteIdle /\ HttpIdle /\ LockIdle /\ EvIdle /\ TripIdle /\ FleetIdle

MuNext ==
  \/ \E ps \in PeerLists : SetRing(Self, ps) /\ UNCHANGED notMu
  \/ SetGetters(Self) /\ UNCHANGED notMu
  \/ \E k \in Keys : PickLocked(Self, k) /\ UNCHANGED notMu

SpecMu == MuInit /\ [][MuNext]_vars

\* ------------------------------------------- the registry of groups
\* At most MaxGroups Group structs are made.
MaxGroups == 2

\* The getters handed to NewGroup: nil, or the backing source.
Getters == {NIL, "db"}
\* The pickers handed to RegisterPeers: the nil interface, or a node's pool.
Pickers == {NIL} \cup Nodes

\* (mutant) NewGroup without the test of lines 39-41
NewGroupNoCheck(name, cb, getter) ==
  /\ Len(gheap) < MaxGroups
  /\ gheap' = Append(gheap, [name |-> name, getter |-> getter, peers |-> NIL,
                             mainCache |-> [lru |-> NoStore, cacheBytes |-> cb]])
  /\ groups' = MapPut(groups, name, Len(gheap) + 1)
  /\ gres' = [op |-> "NewGroup", arg |-> name, getter |-> getter, g |-> Len(gheap) + 1, panic |-> FALSE]
  /\ UNCHANGED <<got, called>>

\* NewGroup, lines 38-54: the panic comes before mu.Lock(); otherwise the
\* new struct replaces whatever groups[name] held.
NewGroup(name, cb, getter) ==
  /\ getter = NIL \/ Len(gheap) < MaxGroups
  /\ IF getter = NIL
       THEN /\ gres' = [op |-> "NewGroup", arg |-> name, getter |-> getter, g |-> 0, panic |-> TRUE]
            /\ UNCHANGED <<groups, gheap>>
       ELSE /\ gheap' = Append(gheap, [name |-> name, getter |-> getter, peers |-> NIL,
                                       mainCache |-> [lru |-> NoStore, cacheBytes |-> cb]])
            /\ groups' = MapPut(groups, name, Len(gheap) + 1)
            /\ gres' = [op |-> "NewGroup", arg |-> name, getter |-> getter, g |-> Len(gheap) + 1, panic |-> FALSE]
  /\ UNCHANGED <<got, called>>

\* GetGroup, lines 57-62: a read of the map under mu.RLock(); nil (0) for
\* a name that is not in it.
GetGroup(name) ==
  LET g == IF name \in DOMAIN groups THEN groups[name] ELSE 0
  IN  /\ gres' = [op |-> "GetGroup", getter |-> NIL, arg |-> name, g |-> g, panic |-> FALSE]
      /\ got' = IF got[name] = 0 THEN [got EXCEPT ![name] = g] ELSE got
      /\ UNCHANGED <<groups, gheap, called>>

\* (mutant) RegisterPeers without the test of lines 82-84
RegisterPeersNoCheck(g, picker) ==
  /\ g \in 1..Len(gheap)
  /\ called' = called \cup {g}
  /\ gheap' = [gheap EXCEPT ![g].peers = picker]
  /\ gres' = [op |-> "RegisterPeers", getter |-> NIL, arg |-> picker, g |-> g, panic |-> FALSE]
  /\ UNCHANGED <<groups, got>>

\* g.RegisterPeers(picker), lines 81-86.
RegisterPeers(g, picker) ==
  /\ g \in 1..Len(gheap)
  /\ called' = called \cup {g}
  /\ IF gheap[g].peers # NIL
       THEN /\ gres' = [op |-> "RegisterPeers", getter |-> NIL, arg |-> picker, g |-> g, panic |-> TRUE]
            /\ UNCHANGED gheap
       ELSE /\ gheap' = [gheap EXCEPT ![g].peers = picker]
            /\ gres' = [op |-> "RegisterPeers", getter |-> NIL, arg |-> picker, g |-> g, panic |-> FALSE]
  /\ UNCHANGED <<groups, got>>

\* A Get of group g that missed and loaded k from the getter:
\* populateCache, lines 113-115.
Populate(g, k) ==
  /\ g \in 1..Len(gheap)
  /\ ~CacheHit(gheap[g].mainCache, k)
  /\ gheap' = [gheap EXCEPT ![g].mainCache = CacheAdd(@, k, LoaderValue(k))]
  /\ gres' = [op |-> "Get", getter |-> NIL, arg |-> k, g |-> g, panic |-> FALSE]
  /\ UNCHANGED <<groups, got, called>>

RegInit ==
  /\ SFInit /\ LruIdle /\ GrpIdle
  /\ NetIdle

RegNext ==
  \/ \E name \in GroupNames, getter \in Getters : NewGroup(name, 0, getter) /\ UNCHANGED notReg
  \/ \E name \in GroupNames : GetGroup(name) /\ UNCHANGED notReg
  \/ \E g \in 1..MaxGroups, picker \in Pickers : RegisterPeers(g, picker) /\ UNCHANGED notReg
  \/ \E g \in 1..MaxGroups : Populate(g, "k1") /\ UNCHANGED notReg

SpecReg == RegInit /\ [][RegNext]_vars

\* ------------------------------------------ ByteView and the byte arrays
\* At most MaxBufs byte arrays are allocated.
MaxBufs == 4

\* What a getter or a peer hands in: one or two bytes.
Payloads == {<<0>>, <<0, 1>>}

\* cloneBytes(b), byteview.go lines 24-28: a new array with b's content.
cloneBytes(bs, a) == Append(bs, bs[a])

\* (mutant) getLocally whose view holds the getter's slice itself
getLocallyNoClone(v) ==
  /\ Len(bufs) + 2 <= MaxBufs
  /\ bufs' = cloneBytes(Append(bufs, v), Len(bufs) + 1)
  /\ ext' = ext \cup {Len(bufs) + 1}
  /\ views' = Append(views, [b |-> Len(bufs) + 1, made |-> v, cached |-> TRUE])

\* getLocally, lines 118-127: the getter hands in a slice of an array it may
\* keep; the view holds a clone, and populateCache puts the view in the cache.
getLocally(v) ==
  /\ Len(bufs) + 2 <= MaxBufs
  /\ bufs' = cloneBytes(Append(bufs, v), Len(bufs) + 1)
  /\ ext' = ext \cup {Len(bufs) + 1}
  /\ views' = Append(views, [b |-> Len(bufs) + 2, made |-> v, cached |-> TRUE])

\* getFromPeer, lines 130-136: the view holds the very slice that peer.Get
\* returned; the view goes to the callers, not into the cache.
getFromPeer(v) ==
  /\ Len(bufs) + 1 <= MaxBufs
  /\ bufs' = Append(bufs, v)
  /\ ext' = ext \cup {Len(bufs) + 1}
  /\ views' = Append(views, [b |-> Len(bufs) + 1, made |-> v, cached |-> FALSE])

\* v.ByteSlice(), byteview.go lines 14-16, for the i-th view: the caller
\* gets a clone.
ByteSlice(i) ==
  /\ i \in 1..Len(views)
  /\ Len(bufs) + 1 <= MaxBufs
  /\ bufs' = cloneBytes(bufs, views[i].b)
  /\ ext' = ext \cup {Len(bufs) + 1}
  /\ UNCHANGED views

\* Code outside the package writes byte j of an array it holds a slice of.
SliceWrite(a, j) ==
  /\ a \in ext
  /\ j \in 1..Len(bufs[a])
  /\ bufs' = [bufs EXCEPT ![a][j] = 1 - @]
  /\ UNCHANGED <<views, ext>>

ByteInit ==
  /\ SFInit /\ LruIdle /\ GrpIdle
  /\ NetIdle

ByteNext ==
  \/ \E v \in Payloads : getLocally(v) /\ UNCHANGED notByte
  \/ \E v \in Payloads : getFromPeer(v) /\ UNCHANGED notByte
  \/ \E i \in 1..MaxBufs : ByteSlice(i) /\ UNCHANGED notByte
  \/ \E a \in 1..MaxBufs, j \in 1..2 : SliceWrite(a, j) /\ UNCHANGED notByte

SpecByte == ByteInit /\ [][ByteNext]_vars

\* C27: whatever is written through the slices that the getter or a peer
\* handed in, or that ByteSlice returned, every view in the cache reads
\* the bytes it was made from, and no array of such a view is held outside.
C27_Isolation ==
  \A i \in 1..Len(views) :
    views[i].cached =>
      /\ bufs[views[i].b] = views[i].made
      /\ views[i].b \notin ext

\* A cached view is intact although the slice its getter handed in and
\* another slice of the same bytes (a ByteSlice result or a peer's
\* response) were written to.
C27_Witness ==
  \E i \in 1..Len(views) :
    /\ views[i].cached
    /\ views[i].b - 1 \in ext /\ bufs[views[i].b - 1] # views[i].made
    /\ \E a \in ext : a > views[i].b /\ Len(bufs[a]) = Len(views[i].made)
                      /\ bufs[a] # views[i].made

\* ------------------------------------------------- HTTPPool.ServeHTTP
\* Paths are sequences of characters.  The remainder of a request path
\* after the base path has at most MaxPath characters.
MaxPath == 4

\* defaultBasePath, character by character.
BasePathChars == <<"/", "_", "g", "e", "e", "c", "a", "c", "h", "e", "/">>
\* The characters of the remainders: of a group's name, of a key, the slash.
PathChars == {"s", "k", "/"}
Remainders == UNION { [1..n -> PathChars] : n \in 0..MaxPath }
\* The request paths: under the base path, and two that are not.
Paths == { BasePathChars \o r : r \in Remainders } \cup {<<"/">>, <<"/", "s", "/", "k">>}

\* strings.HasPrefix(s, pre)
HasPrefix(sq, pre) == Len(sq) >= Len(pre) /\ SubSeq(sq, 1, Len(pre)) = pre

\* strings.Index(s, "/") from position i on, counted from 1; 0 if absent.
RECURSIVE IndexSlash(_, _)
IndexSlash(sq, i) ==
  IF i > Len(sq) THEN 0
  ELSE IF sq[i] = "/" THEN i ELSE IndexSlash(sq, i + 1)

\* strings.SplitN(s, "/", 2): s itself when it has no slash, else what is
\* before the first slash and all that is after it.
SplitN2(sq) ==
  LET i == IndexSlash(sq, 1)
  IN  IF i = 0 THEN <<sq>>
      ELSE <<SubSeq(sq, 1, i - 1), SubSeq(sq, i + 1, Len(sq))>>

\* What group.Get(key) returns to the handler when the load, if there is
\* one, ends with out: lines 65-78 of the group.
HandlerGet(k, out) ==
  IF k = << >> THEN [val |-> NIL, err |-> KeyRequired] ELSE out

\* ServeHTTP, lines 42-76.
ServeHTTP(path, out) ==
  IF ~HasPrefix(path, BasePathChars)
    THEN [NoResp EXCEPT !.panic = TRUE]
  ELSE LET parts == SplitN2(SubSeq(path, Len(BasePathChars) + 1, Len(path)))
       IN  IF Len(parts) # 2
             THEN [NoResp EXCEPT !.status = 400, !.body = "bad request"]
           ELSE IF parts[1] \notin DOMAIN groups
             THEN [NoResp EXCEPT !.status = 404, !.body = "no such group"]
           ELSE LET r == HandlerGet(parts[2], out)
                IN  IF r.err # NIL
                      THEN [status |-> 500, body |-> r.err, get |-> r, panic |-> FALSE]
                      ELSE [status |-> 200, body |-> r.val, get |-> r, panic |-> FALSE]

\* One request is served.
Serve(path, out) ==
  /\ req' = path
  /\ resp' = ServeHTTP(path, out)

\* The registry holds no group, or one group under the name "s".
ServeInit ==
  /\ SFInit /\ LruIdle /\ GrpIdle
  /\ hash = [x \in HStrings |-> 0]
  /\ rmap = MapNew(Replicas)
  /\ added = {}
  /\ rgot = [k \in Keys |-> NIL]
  /\ pools = [n \in Nodes |-> NewHTTPPool(n)]
  /\ picked = NoPick
  /\ PeerIdle
  /\ MuIdle /\ ByteIdle /\ HttpIdle /\ LockIdle /\ EvIdle /\ TripIdle /\ FleetIdle
  /\ gres = NoCall /\ got = [n \in GroupNames |-> 0] /\ called = {}
  /\ \/ groups = NoMap /\ gheap = << >>
     \/ /\ groups = [n \in {<<"s">>} |-> 1]
        /\ gheap = <<[name |-> <<"s">>, getter |-> "db", peers |-> NIL,
                      mainCache |-> [lru |-> NoStore, cacheBytes |-> 0]]>>

ServeNext ==
  \E path \in Paths, out \in Outcomes : Serve(path, out) /\ UNCHANGED notHttp

SpecServe == ServeInit /\ [][ServeNext]_vars

\* ------------------------------------ httpGetter.Get to ServeHTTP
\* Group names and keys are sequences of at most MaxName characters.
MaxName == 2
NameChars == {"a", "/", " ", "+", "%"}
Names == UNION { [1..n -> NameChars] : n \in 1..MaxName }

\* url.QueryEscape of one character: a space becomes '+', the characters
\* that are not unreserved become %XX.
EscapeChar(ch) ==
  CASE ch = " " -> <<"+">>
    [] ch = "/" -> <<"%", "2", "F">>
    [] ch = "+" -> <<"%", "2", "B">>
    [] ch = "%" -> <<"%", "2", "5">>
    [] OTHER    -> <<ch>>

RECURSIVE QueryEscape(_)
QueryEscape(sq) ==
  IF sq = << >> THEN << >> ELSE EscapeChar(Head(sq)) \o QueryEscape(Tail(sq))

\* The character with the hexadecimal code ab.
Unhex(a, b) ==
  CASE <<a, b>> = <<"2", "0">> -> " "
    [] <<a, b>> = <<"2", "5">> -> "%"
    [] <<a, b>> = <<"2", "B">> -> "+"
    [] <<a, b>> = <<"2", "F">> -> "/"
    [] OTHER -> "?"

\* r.URL.Path: the path of the request URL with every %XX decoded; a '+'
\* in a path stands for itself.
RECURSIVE PathUnescape(_)
PathUnescape(sq) ==
  IF sq = << >> THEN << >>
  ELSE IF Head(sq) = "%" /\ Len(sq) >= 3
    THEN <<Unhex(sq[2], sq[3])>> \o PathUnescape(SubSeq(sq, 4, Len(sq)))
    ELSE <<Head(sq)>> \o PathUnescape(Tail(sq))

\* httpGetter.Get(group, key), lines 111-118: the URL is baseURL followed
\* by the escaped group, a slash and the escaped key; baseURL ends with the
\* base path of the peer.
GetterGet ==
  /\ trip.at = "idle"
  /\ trip' = [trip EXCEPT
                !.url = BasePathChars \o QueryEscape(trip.group) \o <<"/">>
                          \o QueryEscape(trip.key),
                !.at = "sent"]

\* ServeHTTP, lines 43-57, on that request: the group name and the key
\* are the two parts of r.URL.Path after the base path.
ServeSplit ==
  /\ trip.at = "sent"
  /\ LET path == PathUnescape(trip.url)
     IN  trip' = [trip EXCEPT
                    !.path = path,
                    !.parts = IF HasPrefix(path, BasePathChars)
                                THEN SplitN2(SubSeq(path, Len(BasePathChars) + 1,
                                                    Len(path)))
                                ELSE << >>,
                    !.at = "served"]

\* A getter is about to be called with any group name and any key.
TripInit ==
  /\ SFInit /\ LruIdle /\ GrpIdle
  /\ PeerIdle
  /\ MuIdle /\ RegIdle /\ ByteIdle /\ HttpIdle /\ LockIdle /\ EvIdle /\ FleetIdle
  /\ hash = [x \in HStrings |-> 0]
  /\ rmap = MapNew(Replicas)
  /\ added = {}
  /\ rgot = [k \in Keys |-> NIL]
  /\ pools = [n \in Nodes |-> NewHTTPPool(n)]
  /\ picked = NoPick
  /\ \E g \in Names, k \in Names : trip = [NoTrip EXCEPT !.group = g, !.key = k]

notTrip == <<sfVars, lruVars, grpVars, hash, ringVars, poolVars, peerVars, muVars, regVars, byteVars, httpVars, lockVars, evVars, fleetVars>>

TripNext ==
  \/ GetterGet /\ UNCHANGED notTrip
  \/ ServeSplit /\ UNCHANGED notTrip

SpecTrip == TripInit /\ [][TripNext]_vars

\* C34: the group name and the key that ServeHTTP takes from the path of a
\* request are the group name and the key that httpGetter.Get was called
\* with.
C34_RoundTrip ==
  trip.at = "served" => trip.parts = <<trip.group, trip.key>>

\* The same for names without a space and group names without a slash.
RoundTripPlain ==
  (/\ trip.at = "served"
   /\ \A i \in 1..Len(trip.group) : trip.group[i] \notin {" ", "/"}
   /\ \A i \in 1..Len(trip.key) : trip.key[i] # " ")
    => trip.parts = <<trip.group, trip.key>>

\* The request is under the base path; what follows the base path.
UnderBase == HasPrefix(req, BasePathChars)
Remainder == SubSeq(req, Len(BasePathChars) + 1, Len(req))
\* The remainder has the form <group>/<key>.
Splits == IndexSlash(Remainder, 1) # 0
ReqGroup == SubSeq(Remainder, 1, IndexSlash(Remainder, 1) - 1)

\* C28: for a request under the base path the status is 400 exactly when
\* the remainder is not of the form <group>/<key>, 404 exactly when it is
\* and the group is not registered, 500 exactly when Group.Get returned the
\* getter's error, and else 200 with the value as body.
C28_StatusMapping ==
  (req # << >> /\ UnderBase) =>
    /\ ~resp.panic
    /\ resp.status = 400 <=> ~Splits
    /\ resp.status = 404 <=> (Splits /\ ReqGroup \notin DOMAIN groups)
    /\ resp.status = 500 <=> resp.get.err = LoaderError
    /\ resp.status \notin {400, 404, 500} =>
         /\ resp.status = 200
         /\ resp.get.err = NIL /\ resp.body = resp.get.val /\ resp.body # NIL

\* ------------------------------------------------ claims on the registry
\* The groups made under a name, oldest first.
Made(name) == { i \in 1..Len(gheap) : gheap[i].name = name }
Latest(name) == CHOOSE i \in Made(name) : \A j \in Made(name) : j <= i

C23_Registry ==
  [][/\ (gres'.op = "NewGroup" /\ regVars' # regVars) =>
          /\ gres'.panic <=> gres'.getter = NIL
          /\ gres'.panic => groups' = groups /\ gheap' = gheap
          /\ ~gres'.panic =>
               /\ gres'.g = Len(gheap) + 1 /\ Len(gheap') = Len(gheap) + 1
               /\ gheap'[gres'.g].name = gres'.arg
               /\ gheap'[gres'.g].getter = gres'.getter
               /\ gres'.arg \in DOMAIN groups' /\ groups'[gres'.arg] = gres'.g
     /\ (gres'.op = "GetGroup" /\ regVars' # regVars) =>
          /\ groups' = groups /\ gheap' = gheap
          /\ IF Made(gres'.arg) = {} THEN gres'.g = 0
                                      ELSE gres'.g = Latest(gres'.arg)]_vars

\* A NewGroup with a nil getter panicked on a registry that holds a group,
\* and a GetGroup returned nil for the other name.
C23_Witness ==
  /\ gres.op = "NewGroup" /\ gres.panic /\ groups # NoMap
  /\ \E n \in GroupNames : got[n] = 0 /\ n \notin DOMAIN groups

\* C24: once GetGroup of a name has returned a group, every GetGroup of
\* that name returns this group.
C24_SameGroup ==
  (gres.op = "GetGroup" /\ got[gres.arg] # 0) => gres.g = got[gres.arg]

\* ------------------------------------------ claims on the ring, the pools
\* C30: after any Add calls the points are in non-decreasing order, every
\* added peer has exactly R points, the hashes of its labels decimal(i)
\* followed by the peer's name, and every point has a label.
C30_RingStructure ==
  /\ \A i \in 1..Len(rmap.keys), j \in 1..Len(rmap.keys) :
       i <= j => rmap.keys[i] <= rmap.keys[j]
  /\ Len(rmap.keys) = rmap.replicas * Cardinality(added)
  /\ \A p \in added, i \in 0..(rmap.replicas - 1) :
       hash[Label(i, p)] \in Range(rmap.keys)
  /\ Range(rmap.keys) = { hash[Label(i, p)] : i \in 0..(rmap.replicas - 1), p \in added }
  /\ Range(rmap.keys) \subseteq DOMAIN rmap.hashMap

\* C29: on a ring with points, Get of a key returns the peer that labels
\* the smallest point at or above the key's hash, and the peer that labels
\* the smallest point of the ring when no point is that large.
C29_Successor ==
  \A k \in Keys :
    (rgot[k] # NIL /\ Len(rmap.keys) > 0) =>
      LET pts == Range(rmap.keys)
          ge == { x \in pts : x >= hash[k] }
          from == IF ge # {} THEN ge ELSE pts
          pt == CHOOSE x \in from : \A y \in from : x <= y
      IN  rgot[k] = rmap.hashMap[pt]

\* On a ring of both peers one lookup wrapped around, and another hit a
\* point equal to its key's hash that is not the first point of the ring.
C29_Witness ==
  /\ added = Peers
  /\ \E k1 \in Keys, k2 \in Keys :
       /\ rgot[k1] # NIL /\ rgot[k2] # NIL
       /\ \A x \in Range(rmap.keys) : x < hash[k1]
       /\ hash[k2] \in Range(rmap.keys)
       /\ \E x \in Range(rmap.keys) : x < hash[k2]
       /\ rgot[k1] # rgot[k2]

\* C21: Set is atomic with respect to PickPeer: every PickPeer reads the
\* ring and the client map of one and the same Set, the latest one, and a
\* found result carries an existing client, the one of a peer of that
\* Set's list, never of a peer that only a replaced list held.
C21_SetAtomic ==
  [][(picked' # picked /\ picked'.node # NIL) =>
       LET n == picked'.node
           p == pools[n]
       IN  /\ pend[n] # NoList =>
                /\ p.peers = <<MapAdd(MapNew(Replicas), hash, pend[n])>>
                /\ DOMAIN p.httpGetters = Range(pend[n])
           /\ picked'.res.ok =>
                /\ picked'.res.getter # NoGetter
                /\ \E x \in Range(pend[n]) :
                     picked'.res.getter = httpGetter(p, x)]_vars

\* A PickPeer found a peer after a Set replaced a list of other peers.
C21_Witness ==
  /\ picked.node = Self /\ picked.res.ok
  /\ prev[Self] # NoList
  /\ Range(prev[Self]) \ Range(pend[Self]) # {}

\* C19: once a peer has been added to a ring of at least one virtual node
\* per peer, every Get returns one of the added peers, and a Get of a key
\* returns what the previous Get of that key returned since the last Add.
C19_RingGet ==
  [][\A k \in Keys :
       rgot'[k] # NIL =>
         /\ (rmap.replicas >= 1 /\ added # {}) => rgot'[k] \in added
         /\ rgot[k] # NIL => rgot'[k] = rgot[k]]_vars

\* Both peers were added, two virtual nodes collide, and both keys have
\* been looked up on the unmodified ring.
C19_Witness ==
  /\ added = Peers /\ rmap.replicas = Replicas
  /\ Cardinality(Range(rmap.keys)) < Len(rmap.keys)
  /\ \A k \in Keys : rgot[k] \in Peers
  /\ \E k \in Keys : hash[k] > rmap.keys[Len(rmap.keys)]

\* C31: a ring that was never given a peer (no Add, or only Adds of no
\* peers) and a ring of zero virtual nodes per peer (whatever was added)
\* have no points, and every Get on them returns the empty identifier.
C31_EmptyRing ==
  (added = {} \/ rmap.replicas = 0) =>
    /\ Len(rmap.keys) = 0
    /\ \A k \in Keys : rgot[k] \in {NIL, ""}

\* Both peers were added to a ring of zero virtual nodes and both keys
\* were looked up afterwards.
C31_Witness ==
  /\ rmap.replicas = 0 /\ added = Peers
  /\ \A k \in Keys : rgot[k] = ""

\* The fleet of C18: every pool was Set with the same set of peers, and
\* every node is one of them.
FleetConfigured ==
  /\ \A n \in Nodes : pools[n].peers # NoRing
  /\ \A n \in Nodes : DOMAIN pools[n].httpGetters = Nodes

\* C18: in such a fleet every key has exactly one node whose PickPeer
\* returns not-found, and every other node's PickPeer returns the getter of
\* that node.
C18_OneOwner ==
  FleetConfigured =>
    \A k \in Keys : \E o \in Nodes :
      /\ PickPeer(pools[o], hash, k) = NotFound
      /\ \A n \in Nodes \ {o} :
           PickPeer(pools[n], hash, k) =
             [ok |-> TRUE, getter |-> httpGetter(pools[n], o), panic |-> FALSE]

\* C36: two rings built by Set from the same set of peers, whatever the
\* order of the peers in the two calls, give every key the same peer.
C36_OrderIndependent ==
  \A n1 \in Nodes, n2 \in Nodes :
    (/\ pools[n1].peers # NoRing /\ pools[n2].peers # NoRing
     /\ DOMAIN pools[n1].httpGetters = DOMAIN pools[n2].httpGetters)
      => \A k \in Keys :
           MapGet(pools[n1].peers[1], hash, k) = MapGet(pools[n2].peers[1], hash, k)

\* The same when no virtual node of a peer has the hash of a virtual node
\* of another peer.
OrderIndependentNoCollision ==
  (\A i \in 0..(Replicas - 1), j \in 0..(Replicas - 1) :
     \A p \in Peers : \A q \in Peers \ {p} :
       hash[Label(i, p)] # hash[Label(j, q)])
    => C36_OrderIndependent

\* C20: PickPeer returns not-found, and does not panic, when the pool was
\* never Set, when it was Set with no peers, and when the ring's owner of
\* the key is the pool itself.
C20_NotFoundCases ==
  picked # NoPick =>
    LET p == pools[picked.node]
    IN  (\/ p.peers = NoRing
         \/ DOMAIN p.httpGetters = {}
         \/ MapGet(p.peers[1], hash, picked.key) = p.self)
          => picked.res = NotFound

\* ------------------------------------- Group with a registered PeerPicker
\* One group on node Self whose picker is the node's HTTPPool
\* (RegisterPeers, lines 81-86); the other nodes are seen through their
\* PeerGetter only.

\* What the remote node serves for a key, and the errors of the two sources.
PeerValue(k) == IF k = "k1" THEN "px" ELSE "pyy"
PeerError == "pe"

\* A hash under which node A owns k1 and node B owns k2.
PeerHash ==
  [x \in HStrings |->
     IF x \in {"k2"} \cup {Label(i, "B") : i \in 0 .. (Replicas - 1)}
       THEN 1 ELSE 0]

\* Group.Get, with the bookkeeping of what t's previous Get returned.
NodeGet(t, k) ==
  /\ GroupGet(t, k)
  /\ clean' = [clean EXCEPT ![t] = TRUE]
  /\ prevErr' = [prevErr EXCEPT ![t] =
                   IF k = key[t] /\ ret[t].err = LoaderError
                     THEN ret[t].call ELSE 0]
  /\ UNCHANGED <<lpeer, picks, fetches, fails, lastAdd>>

\* The closure of load, lines 93-96 and 103: ask the picker; with a peer,
\* call getFromPeer; without one, call getLocally, whose first statement
\* calls the getter.  A picker that panics unwinds the goroutine out of Do.
LoadPick(t) ==
  /\ pc[t] = "fn"
  /\ picks' = [picks EXCEPT ![key[t]] = @ + 1]
  /\ LET r == PickPeer(pools[Self], hash, key[t])
     IN  IF r.panic
           THEN /\ pc' = [pc EXCEPT ![t] = "panicked"]
                /\ UNCHANGED <<lpeer, fetches, loads>>
           ELSE IF r.ok
             THEN /\ pc' = [pc EXCEPT ![t] = "peer"]
                  /\ lpeer' = [lpeer EXCEPT ![t] = r.getter]
                  /\ fetches' = [fetches EXCEPT ![key[t]] = @ + 1]
                  /\ UNCHANGED loads
             ELSE /\ pc' = [pc EXCEPT ![t] = "getter"]
                  /\ loads' = [loads EXCEPT ![key[t]] = @ + 1]
                  /\ UNCHANGED <<lpeer, fetches>>
  /\ UNCHANGED <<key, c, ret, m, calls, mainCache, fails, clean, lastAdd,
                 prevErr>>

\* (mutant) a successful fetch that also populates the local cache
PeerOkPopulate(t) ==
  /\ pc[t] = "peer"
  /\ mainCache' = CacheAdd(mainCache, key[t], PeerValue(key[t]))
  /\ calls' = [calls EXCEPT ![c[t]].val = PeerValue(key[t]), ![c[t]].err = NIL]
  /\ pc' = [pc EXCEPT ![t] = "Done"]
  /\ lpeer' = [lpeer EXCEPT ![t] = NoGetter]
  /\ UNCHANGED <<key, c, ret, m, loads, picks, fetches, fails, clean, lastAdd,
                 prevErr>>

\* getFromPeer returned the peer's bytes, lines 96-97 and 134: they are the
\* closure's result; nothing is cached.
PeerOk(t) ==
  /\ pc[t] = "peer"
  /\ calls' = [calls EXCEPT ![c[t]].val = PeerValue(key[t]), ![c[t]].err = NIL]
  /\ pc' = [pc EXCEPT ![t] = "Done"]
  /\ lpeer' = [lpeer EXCEPT ![t] = NoGetter]
  /\ UNCHANGED <<key, c, ret, m, mainCache, loads, picks, fetches, fails,
                 clean, lastAdd, prevErr>>

\* (mutant) a failed fetch whose error is the closure's result
PeerErrNoFallback(t) ==
  /\ pc[t] = "peer"
  /\ calls' = [calls EXCEPT ![c[t]].val = NIL, ![c[t]].err = PeerError]
  /\ pc' = [pc EXCEPT ![t] = "Done"]
  /\ fails' = [fails EXCEPT ![key[t]] = @ + 1]
  /\ UNCHANGED <<key, c, ret, m, mainCache, loads, lpeer, picks, fetches,
                 clean, lastAdd, prevErr>>

\* getFromPeer returned an error, lines 96-103: it is assigned to load's
\* named result err and logged, and the closure goes on to getLocally.
PeerErr(t) ==
  /\ pc[t] = "peer"
  /\ ret' = [ret EXCEPT ![t].err = PeerError]
  /\ fails' = [fails EXCEPT ![key[t]] = @ + 1]
  /\ loads' = [loads EXCEPT ![key[t]] = @ + 1]
  /\ pc' = [pc EXCEPT ![t] = "getter"]
  /\ UNCHANGED <<key, c, m, calls, mainCache, lpeer, picks, fetches, clean,
                 lastAdd, prevErr>>

\* getLocally's two ends, with the bookkeeping of the cache write.
NodeGetterOk(t) ==
  /\ GetterOk(t)
  /\ clean' = [u \in Threads |-> FALSE]
  /\ lastAdd' = c[t]
  /\ lpeer' = [lpeer EXCEPT ![t] = NoGetter]
  /\ UNCHANGED <<picks, fetches, fails, prevErr>>

NodeGetterErr(t) ==
  /\ GetterErr(t)
  /\ lpeer' = [lpeer EXCEPT ![t] = NoGetter]
  /\ UNCHANGED <<picks, fetches, fails, clean, lastAdd, prevErr>>

\* load returns what Do returned, lines 106-109; what the previous Get
\* returned is then forgotten.
LoadReturn(t) ==
  /\ DoReturn(t) \/ DoWait(t)
  /\ prevErr' = [prevErr EXCEPT ![t] = 0]
  /\ UNCHANGED <<lpeer, picks, fetches, fails, clean, lastAdd>>

\* NewGroup with a capacity of 0 or LruCap bytes, and RegisterPeers with the
\* pool of node Self, either fresh from NewHTTPPool or Set with both nodes.
PeersInit ==
  /\ SFInit
  /\ LruIdle
  /\ \E cap \in {0, LruCap} : mainCache = [lru |-> NoStore, cacheBytes |-> cap]
  /\ loads = [k \in Keys |-> 0]
  /\ hash = PeerHash
  /\ rmap = MapNew(Replicas)
  /\ added = {}
  /\ rgot = [k \in Keys |-> NIL]
  /\ \E p \in {NewHTTPPool(Self),
               HTTPPoolSet(NewHTTPPool(Self), PeerHash, <<"A", "B">>)} :
       pools = [n \in Nodes |-> IF n = Self THEN p ELSE NewHTTPPool(n)]
  /\ picked = NoPick
  /\ PeerIdle
  /\ ExtIdle

PeersNext ==
  \/ \E t \in Threads, k \in Keys \cup {""} : NodeGet(t, k) /\ UNCHANGED <<lruVars, hash, ringVars, poolVars, extVars>>
  \/ \E t \in Threads : DoLock(t) /\ UNCHANGED <<lruVars, grpVars, netVars>>
  \/ \E t \in Threads : LoadPick(t) /\ UNCHANGED <<lruVars, hash, ringVars, poolVars, extVars>>
  \/ \E t \in Threads : PeerOk(t) /\ UNCHANGED <<lruVars, hash, ringVars, poolVars, extVars>>
  \/ \E t \in Threads : PeerErr(t) /\ UNCHANGED <<lruVars, hash, ringVars, poolVars, extVars>>
  \/ \E t \in Threads : NodeGetterOk(t) /\ UNCHANGED <<lruVars, hash, ringVars, poolVars, extVars>>
  \/ \E t \in Threads : NodeGetterErr(t) /\ UNCHANGED <<lruVars, hash, ringVars, poolVars, extVars>>
  \/ \E t \in Threads : GetterPanic(t) /\ UNCHANGED <<lruVars, netVars>>
  \/ \E t \in Threads : WgDone(t) /\ UNCHANGED <<lruVars, grpVars, netVars>>
  \/ \E t \in Threads : DoDelete(t) /\ UNCHANGED <<lruVars, grpVars, netVars>>
  \/ \E t \in Threads : LoadReturn(t) /\ UNCHANGED <<lruVars, grpVars, hash, ringVars, poolVars, extVars>>

SpecPeers == PeersInit /\ [][PeersNext]_vars

\* -------------------------- the group with its peers, mutex by mutex
\* The Get of SpecPeers with Lock and Unlock as steps of their own: a
\* goroutine takes a mutex in one step and runs the critical section, up to
\* the Unlock, in the next.
Acquire(t, l) == held[l] = 0 /\ held' = [held EXCEPT ![l] = t]
Release(t, l) == held[l] = t /\ held' = [held EXCEPT ![l] = 0]

\* cache.get, c.mu.Lock(): part_009 line 27.
CacheLock(t) ==
  /\ pc[t] = "idle"
  /\ Len(calls) + Cardinality({u \in Threads : pc[u] = "Do"}) < MaxCalls
  /\ Acquire(t, "c.mu")

\* Get of a key that is not empty, from the lookup under c.mu to the
\* deferred Unlock: a hit returns, a miss goes on to load and Do.
GetLocked(t, k) ==
  /\ NodeGet(t, k)
  /\ Release(t, "c.mu")

\* Do, g.mu.Lock(): singleflight.go lines 26 and 50.
DoMuLock(t) ==
  /\ pc[t] \in {"Do", "Delete"}
  /\ Acquire(t, "g.mu")

\* (mutant) Do that keeps g.mu while it runs fn
DoLockedHold(t) ==
  /\ held["g.mu"] = t
  /\ DoLock(t)
  /\ IF InFlight(key[t]) THEN Release(t, "g.mu") ELSE UNCHANGED held

\* Do, lines 27-43: the lookup in g.m under g.mu, up to the Unlock of line
\* 33 (a waiter) or of line 42 (the caller that will run fn).
DoLocked(t) ==
  /\ DoLock(t)
  /\ Release(t, "g.mu")

\* Do, lines 51-52: the delete under g.mu and the Unlock.
DoDeleteLocked(t) ==
  /\ DoDelete(t)
  /\ Release(t, "g.mu")

\* The closure of load calls PickPeer, p.mu.Lock(): part_008 line 93.
PickLock(t) ==
  /\ pc[t] = "fn"
  /\ Acquire(t, "p.mu")

\* PickPeer from the lookup on the ring to the deferred Unlock, and the
\* closure up to its call of the peer or of the getter.
LoadPickLocked(t) ==
  /\ LoadPick(t)
  /\ Release(t, "p.mu")

\* The getter returns bytes, and populateCache adds them under c.mu
\* (part_009 lines 17-18).
GetterOkLocked(t) ==
  /\ held["c.mu"] = 0
  /\ NodeGetterOk(t)

\* NewGroup with a cache that never evicts, RegisterPeers with the pool of
\* node Self, Set with both nodes.
LockInit ==
  /\ SFInit
  /\ LruIdle
  /\ mainCache = [lru |-> NoStore, cacheBytes |-> 0]
  /\ loads = [k \in Keys |-> 0]
  /\ hash = PeerHash
  /\ rmap = MapNew(Replicas)
  /\ added = {}
  /\ rgot = [k \in Keys |-> NIL]
  /\ pools = [n \in Nodes |-> IF n = Self
                THEN HTTPPoolSet(NewHTTPPool(Self), PeerHash, <<"A", "B">>)
                ELSE NewHTTPPool(n)]
  /\ picked = NoPick
  /\ PeerIdle
  /\ ExtIdle

LockNext ==
  \/ \E t \in Threads : CacheLock(t) /\ UNCHANGED <<sfVars, grpVars, peerVars, lockFrame>>
  \/ \E t \in Threads, k \in Keys : GetLocked(t, k) /\ UNCHANGED lockFrame
  \/ \E t \in Threads : DoMuLock(t) /\ UNCHANGED <<sfVars, grpVars, peerVars, lockFrame>>
  \/ \E t \in Threads : DoLocked(t) /\ UNCHANGED <<grpVars, peerVars, lockFrame>>
  \/ \E t \in Threads : PickLock(t) /\ UNCHANGED <<sfVars, grpVars, peerVars, lockFrame>>
  \/ \E t \in Threads : LoadPickLocked(t) /\ UNCHANGED lockFrame
  \/ \E t \in Threads : PeerOk(t) /\ UNCHANGED <<lockVars, lockFrame>>
  \/ \E t \in Threads : PeerErr(t) /\ UNCHANGED <<lockVars, lockFrame>>
  \/ \E t \in Threads : GetterOkLocked(t) /\ UNCHANGED <<lockVars, lockFrame>>
  \/ \E t \in Threads : NodeGetterErr(t) /\ UNCHANGED <<lockVars, lockFrame>>
  \/ \E t \in Threads : WgDone(t) /\ UNCHANGED <<grpVars, peerVars, lockVars, lockFrame>>
  \/ \E t \in Threads : DoDeleteLocked(t) /\ UNCHANGED <<grpVars, peerVars, lockFrame>>
  \/ \E t \in Threads : LoadReturn(t) /\ UNCHANGED <<grpVars, lockVars, lockFrame>>

SpecLock == LockInit /\ [][LockNext]_vars

\* t is blocked in I/O: in the getter's call or in a peer's fetch.
InIO(t) == pc[t] \in {"getter", "peer"}

\* The step that ends the critical section u is in.
Unlocks(u) ==
  \/ \E k \in Keys : GetLocked(u, k)
  \/ DoLocked(u)
  \/ DoDeleteLocked(u)
  \/ LoadPickLocked(u)

\* C26: a goroutine that is in the getter's call or in a peer's fetch holds
\* no mutex of the cache shell, the coalescer or the pool, and whoever
\* holds one holds no other, waits for nobody and can leave its critical
\* section at once: a Get of another key, a PickPeer or a Set is never kept
\* waiting by a call that is blocked in I/O.
C26_NoLockAcrossIO ==
  /\ \A t \in Threads : InIO(t) => \A l \in Locks : held[l] # t
  /\ \A l \in Locks : held[l] # 0 =>
       /\ ~InIO(held[l]) /\ pc[held[l]] # "Wait"
       /\ \A l2 \in Locks \ {l} : held[l2] # held[l]
       /\ ENABLED Unlocks(held[l])

\* While one goroutine is in the getter's call for a key, another has
\* taken the coalescer's mutex for another key after the cache's.
C26_Witness ==
  \E t \in Threads, u \in Threads :
    /\ pc[t] = "getter" /\ key[t] # key[u]
    /\ pc[u] = "Do" /\ held["g.mu"] = u

\* ------------------------------------ claims on the group with its peers
\* The entry (k, v) is within the capacity of the cache shell sh.
Fits(sh, k, v) == sh.cacheBytes = 0 \/ Len(k) + Len(v) <= sh.cacheBytes

\* A batch of Get(k) calls is over: every goroutine's last call was Get(k),
\* all have returned, and the getter ran once for k.
BatchDone(k) ==
  /\ \A t \in Threads : pc[t] = "idle" /\ key[t] = k /\ ret[t] # NoRet
  /\ loads[k] = 1

\* C25 as stated: after a batch of concurrent Get(K) calls that ran the
\* getter once, the next Get(K) calls run it again: the first of them
\* misses the cache and goes to the coalescer.
C25_SecondBatchLoads ==
  [][\A k \in Keys :
       (BatchDone(k) /\ key' = key /\ vars' # vars) =>
         \E t \in Threads : pc'[t] = "Do"]_vars

\* C25, amended: after such a batch, a further Get(K) is a hit that leaves
\* the getter's count at 1 and the batch over while K is resident in the
\* cache (which it is when the getter succeeded, the entry fits and no
\* other key was loaded), and goes to the coalescer, to run the getter a
\* second time, only when K is not resident.
C25_SecondBatchHits ==
  [][\A k \in Keys :
       (BatchDone(k) /\ key' = key /\ vars' # vars) =>
         /\ CacheHit(mainCache, k) =>
              \E t \in Threads : ret[t].err = NIL /\ Fits(mainCache, k, ret[t].val)
         /\ ( /\ SumLoads(Keys) = 1
              /\ \E t \in Threads : ret[t].err = NIL /\ Fits(mainCache, k, ret[t].val) )
              => CacheHit(mainCache, k)
         /\ IF CacheHit(mainCache, k)
              THEN /\ loads' = loads /\ pc' = pc
                   /\ BatchDone(k)' /\ CacheHit(mainCache', k)
                   /\ \A t \in Threads :
                        ret'[t] # ret[t] =>
                          ret'[t] = [val |-> LoaderValue(k), err |-> NIL,
                                     call |-> 0, ran |-> FALSE]
              ELSE \E t \in Threads : pc'[t] = "Do"]_vars

\* After a batch in which both goroutines went through the coalescer and
\* the getter ran once, one of them has called Get again and hit the cache.
C25_Witness ==
  \E k \in Keys, t \in Threads, u \in Threads :
    /\ BatchDone(k)
    /\ ret[u].call # 0 /\ ~ret[u].ran /\ ret[u].val = LoaderValue(k)
    /\ ret[t].call = 0 /\ ret[t].val = LoaderValue(k)
    /\ Len(calls) = 1

\* t's last Get returned bytes and the cache was not written since: not
\* since the load by the getter that produced the bytes wrote them to the
\* cache, and for a hit or a peer's bytes not since the Get began.
GotBytes(t) ==
  /\ pc[t] = "idle" /\ ret[t].err = NIL /\ ret[t].val # NIL
  /\ IF ret[t].call # 0 /\ ret[t].val = LoaderValue(key[t])
       THEN ret[t].call = lastAdd
       ELSE clean[t]

\* The step is a Get by t of the key of its previous Get.
GetsAgain(t) ==
  pc[t] = "idle" /\ key'[t] = key[t] /\ (pc'[t] # "idle" \/ ret'[t] # ret[t])

\* C13 (as claimed): a Get of K that follows, with no write of the cache in
\* between, a Get of K that returned bytes is a cache hit and returns the
\* same bytes.
C13_SecondIsHit ==
  [][\A t \in Threads :
       (GotBytes(t) /\ GetsAgain(t)) =>
         /\ pc'[t] = "idle"
         /\ ret'[t] = [val |-> ret[t].val, err |-> NIL, call |-> 0, ran |-> FALSE]]_vars

\* C13 (amended): the same, when the first Get was itself a hit or was
\* served by the local getter, and the entry fits the capacity.
C13_SecondIsHitIfCached ==
  [][\A t \in Threads :
       (/\ GotBytes(t) /\ GetsAgain(t)
        /\ ret[t].val = LoaderValue(key[t])
        /\ Fits(mainCache, key[t], ret[t].val)) =>
         /\ pc'[t] = "idle"
         /\ ret'[t] = [val |-> ret[t].val, err |-> NIL, call |-> 0, ran |-> FALSE]
         /\ UNCHANGED <<loads, picks, fetches>>]_vars

\* A Get has been answered from the cache after the one load of its key,
\* a load by the local getter, and nothing has written the cache since.
C13_Witness ==
  \E t \in Threads :
    /\ GotBytes(t) /\ ret[t].call = 0
    /\ ret[t].val = LoaderValue(key[t])
    /\ loads[key[t]] = 1 /\ Len(calls) = 1
    /\ mainCache.cacheBytes = LruCap

\* C14: a Get with the empty key returns the key-required error and
\* changes nothing else: not the cache, not the coalescer, and neither the
\* picker, a peer nor the getter is asked.
C14_EmptyKey ==
  [][\A t \in Threads :
       (pc[t] = "idle" /\ key'[t] = "" /\ (key[t] # "" \/ ret'[t] # ret[t])) =>
         /\ ret'[t] = [val |-> NIL, err |-> KeyRequired, call |-> 0, ran |-> FALSE]
         /\ UNCHANGED <<pc, c, m, calls, mainCache, loads, lpeer, picks, fetches, fails>>]_vars

\* A Get with the empty key has returned on a node whose cache holds an
\* entry and whose coalescer holds a record.
C14_Witness ==
  \E t \in Threads :
    /\ pc[t] = "idle" /\ key[t] = "" /\ ret[t].err = KeyRequired
    /\ mainCache.lru # NoStore
    /\ \E k \in Keys : InFlight(k)

\* C15: as long as every load of key k picked a peer and no fetch for k
\* failed, the getter was never called for k, k is not in the cache, and
\* every Get of k that returned from a load returned the peer's bytes.
C15_RemoteNotCached ==
  \A k \in Keys :
    (fetches[k] >= 1 /\ fails[k] = 0 /\ picks[k] = fetches[k]) =>
      /\ loads[k] = 0
      /\ ~CacheHit(mainCache, k)
      /\ \A t \in Threads :
           (ReturnedFromLoad(t) /\ key[t] = k) =>
             ret[t].val = PeerValue(k) /\ ret[t].err = NIL

\* A leader and a waiter have both returned the bytes of one peer fetch.
C15_Witness ==
  \E k \in Keys, t1, t2 \in Threads :
    /\ fetches[k] = 1 /\ fails[k] = 0
    /\ ReturnedFromLoad(t1) /\ ReturnedFromLoad(t2)
    /\ key[t1] = k /\ key[t2] = k
    /\ ret[t1].ran /\ ~ret[t2].ran
    /\ ret[t2].val = PeerValue(k)

\* A failed fetch is followed by a call of the getter; the closure that
\* fell back ends with the getter's value or the getter's error; and every
\* return from a load hands out the record's value and error, never the
\* peer's error.
FallsBack(t) ==
  /\ (pc[t] = "peer" /\ pc'[t] \notin {"peer", "Done"}) =>
       (pc'[t] = "getter" /\ loads'[key[t]] = loads[key[t]] + 1)
  /\ (pc[t] = "getter" /\ lpeer[t] # NoGetter /\ pc'[t] = "Done") =>
       \/ calls'[c[t]].err = LoaderError
       \/ calls'[c[t]].err = NIL /\ calls'[c[t]].val = LoaderValue(key[t])
  /\ (pc[t] \in {"Return", "Wait"} /\ pc'[t] = "idle") =>
       /\ ret'[t].err # PeerError
       /\ ret'[t].val = calls[c[t]].val /\ ret'[t].err = calls[c[t]].err

\* The closure of t fell back to the getter, which returned bytes.
FellBackOk(t) ==
  /\ pc[t] = "getter" /\ lpeer[t] # NoGetter
  /\ pc'[t] = "Done" /\ calls'[c[t]].err = NIL

\* C16 (as claimed): fallback as above, and after a fallback whose getter
\* succeeds the cache contains the key.
C16_Fallback ==
  [][\A t \in Threads :
       /\ FallsBack(t)
       /\ FellBackOk(t) => CacheHit(mainCache', key[t])]_vars

\* C16 (amended): the cache contains the key when the entry fits the
\* capacity.
C16_FallbackIfFits ==
  [][\A t \in Threads :
       /\ FallsBack(t)
       /\ (FellBackOk(t) /\ Fits(mainCache, key[t], LoaderValue(key[t]))) =>
            /\ CacheHit(mainCache', key[t])
            /\ CacheValue(mainCache', key[t]) = LoaderValue(key[t])]_vars

\* A waiter has returned the getter's bytes for a key whose fetch from the
\* peer failed, and the key is in the cache.
C16_Witness ==
  \E t \in Threads :
    /\ ReturnedFromLoad(t) /\ ~ret[t].ran
    /\ fetches[key[t]] = 1 /\ fails[key[t]] = 1
    /\ ret[t].val = LoaderValue(key[t]) /\ ret[t].err = NIL
    /\ CacheHit(mainCache, key[t])

\* C17 (as claimed): a getter error leaves the cache as it was and is what
\* Get returns, and a Get of K that follows a Get of K that returned the
\* getter's error is not answered from the failed load again.
C17_LoaderError ==
  [][\A t \in Threads :
       /\ (pc[t] = "getter" /\ pc'[t] = "Done" /\ calls'[c[t]].err # NIL) =>
            (calls'[c[t]].err = LoaderError /\ mainCache' = mainCache)
       /\ (pc[t] \in {"Return", "Wait"} /\ pc'[t] = "idle" /\ ret'[t].err # NIL) =>
            /\ ret'[t].err = LoaderError /\ ret'[t].val = NIL
            /\ mainCache' = mainCache
            /\ ret'[t].call # prevErr[t]]_vars

\* ------------------------------------------- a fleet of nodes, one group
\* The group "s" on every node, each with its pool as picker and with an
\* unbounded main cache.  A goroutine runs one Get: as a caller on its
\* node, or as the handler of a request that a goroutine of another node
\* sent through its httpGetter.

\* The characters of the keys: k1 is the key "a ", k2 the key "a+".
Spelling(k) == IF k = "k1" THEN <<"a", " ">> ELSE <<"a", "+">>
FleetGroup == <<"s">>

\* The key that ServeHTTP hands to Group.Get when an httpGetter was asked
\* for key k of the group: lines 111-118 and lines 44-57 of the pool.
ServedKey(k) ==
  LET path == PathUnescape(BasePathChars \o QueryEscape(FleetGroup) \o <<"/">>
                             \o QueryEscape(Spelling(k)))
      parts == SplitN2(SubSeq(path, Len(BasePathChars) + 1, Len(path)))
  IN  CHOOSE j \in Keys : Spelling(j) = parts[2]

\* The node an httpGetter sends its requests to.
NodeOf(getter) == CHOOSE n \in Nodes : getter.baseURL = n \o defaultBasePath

\* What the backing source of node n gives for key k.
FleetValue(n, k) == [of |-> k, from |-> n]

FMapPut(f, k, v) == [x \in (DOMAIN f) \cup {k} |-> IF x = k THEN v ELSE f[x]]

\* A caller on node n calls Group.Get(k).
FleetGet(t, n, k) ==
  /\ gor[t].pc = "free"
  /\ gor' = [gor EXCEPT ![t] = [NoGor EXCEPT !.at = n, !.pc = "get", !.key = k]]
  /\ UNCHANGED <<fm, frec, fcache>>

\* Group.Get, lines 65-78: a hit returns the cached value, a miss goes on
\* to g.load and g.loader.Do.
FleetLookup(t) ==
  /\ gor[t].pc = "get"
  /\ LET n == gor[t].at
         k == gor[t].key
     IN  IF k \in DOMAIN fcache[n]
           THEN gor' = [gor EXCEPT ![t].pc = "done",
                                   ![t].ret = [val |-> fcache[n][k], err |-> NIL]]
           ELSE gor' = [gor EXCEPT ![t].pc = "Do"]
  /\ UNCHANGED <<fm, frec, fcache>>

\* Do, lines 26-42: attach to the record of the key, or create one.
FleetDoLock(t) ==
  /\ gor[t].pc = "Do"
  /\ LET n == gor[t].at
         k == gor[t].key
     IN  IF k \in DOMAIN fm[n]
           THEN /\ gor' = [gor EXCEPT ![t].pc = "Wait", ![t].call = fm[n][k]]
                /\ UNCHANGED <<fm, frec>>
           ELSE /\ frec' = Append(frec, [val |-> NoVal, err |-> NIL, wg |-> 1,
                                         by |-> t])
                /\ fm' = [fm EXCEPT ![n] = FMapPut(@, k, Len(frec) + 1)]
                /\ gor' = [gor EXCEPT ![t].pc = "fn", ![t].call = Len(frec) + 1]
  /\ UNCHANGED fcache

\* The closure of load, lines 93-96 and 103: with a peer, getFromPeer sends
\* the request, which a new goroutine of the peer's node serves; without
\* one, getLocally.
FleetPick(t) ==
  /\ gor[t].pc = "fn"
  /\ LET r == PickPeer(pools[gor[t].at], hash, gor[t].key)
     IN  IF r.ok
           THEN \E u \in Fleet :
                  /\ gor[u].pc = "free"
                  /\ \A v \in 1..(u - 1) : gor[v].pc # "free"
                  /\ gor' = [gor EXCEPT
                               ![t].pc = "peer",
                               ![u] = [NoGor EXCEPT !.at = NodeOf(r.getter),
                                                    !.pc = "get",
                                                    !.key = ServedKey(gor[t].key),
                                                    !.par = t]]
           ELSE gor' = [gor EXCEPT ![t].pc = "getter"]
  /\ UNCHANGED <<fm, frec, fcache>>

\* The response of the peer: 200 with the bytes, which are the closure's
\* result (lines 96-97), or 500, after which the closure calls getLocally.
FleetReply(t) ==
  /\ gor[t].pc = "peer"
  /\ \E u \in Fleet :
       /\ gor[u].par = t /\ gor[u].pc = "done"
       /\ IF gor[u].ret.err = NIL
            THEN /\ frec' = [frec EXCEPT ![gor[t].call].val = gor[u].ret.val]
                 /\ gor' = [gor EXCEPT ![t].pc = "Done", ![u].pc = "gone"]
            ELSE /\ gor' = [gor EXCEPT ![t].pc = "getter", ![u].pc = "gone"]
                 /\ UNCHANGED frec
  /\ UNCHANGED <<fm, fcache>>

\* getLocally, lines 118-127, the getter returning bytes or an error.
FleetGetter(t, ok) ==
  /\ gor[t].pc = "getter"
  /\ LET n == gor[t].at
         k == gor[t].key
     IN  IF ok
           THEN /\ fcache' = [fcache EXCEPT ![n] = FMapPut(@, k, FleetValue(n, k))]
                /\ frec' = [frec EXCEPT ![gor[t].call].val = FleetValue(n, k)]
           ELSE /\ frec' = [frec EXCEPT ![gor[t].call].err = LoaderError]
                /\ UNCHANGED fcache
  /\ gor' = [gor EXCEPT ![t].pc = "Done"]
  /\ UNCHANGED fm

\* Do, lines 45-54: c.wg.Done(), delete(g.m, key), return c.val, c.err.
FleetDoDone(t) ==
  /\ gor[t].pc = "Done"
  /\ frec' = [frec EXCEPT ![gor[t].call].wg = 0]
  /\ gor' = [gor EXCEPT ![t].pc = "Delete"]
  /\ UNCHANGED <<fm, fcache>>

FleetDoDelete(t) ==
  /\ gor[t].pc = "Delete"
  /\ fm' = [fm EXCEPT ![gor[t].at] =
              [x \in (DOMAIN @) \ {gor[t].key} |-> @[x]]]
  /\ gor' = [gor EXCEPT ![t].pc = "done",
                        ![t].ret = [val |-> frec[gor[t].call].val,
                                    err |-> frec[gor[t].call].err]]
  /\ UNCHANGED <<frec, fcache>>

\* Do, lines 33-36: c.wg.Wait() returns once the record's fn has returned.
FleetDoWait(t) ==
  /\ gor[t].pc = "Wait"
  /\ frec[gor[t].call].wg = 0
  /\ gor' = [gor EXCEPT ![t].pc = "done",
                        ![t].ret = [val |-> frec[gor[t].call].val,
                                    err |-> frec[gor[t].call].err]]
  /\ UNCHANGED <<fm, frec, fcache>>

\* The peer lists the pools of the fleet are Set with.
FleetLists == {<<"A">>, <<"B">>, <<"A", "B">>}

\* Every node has made its pool and called Set with some list of peers.
FleetInit ==
  /\ SFInit /\ LruIdle /\ GrpIdle
  /\ PeerIdle
  /\ MuIdle /\ RegIdle /\ ByteIdle /\ HttpIdle /\ LockIdle /\ EvIdle /\ TripIdle
  /\ hash = PeerHash
  /\ rmap = MapNew(Replicas)
  /\ added = {}
  /\ rgot = [k \in Keys |-> NIL]
  /\ \E ps \in [Nodes -> FleetLists] :
       pools = [n \in Nodes |-> HTTPPoolSet(NewHTTPPool(n), PeerHash, ps[n])]
  /\ picked = NoPick
  /\ FleetIdle

notFleet == <<sfVars, lruVars, grpVars, hash, ringVars, poolVars, peerVars, muVars, regVars, byteVars, httpVars, lockVars, evVars, tripVars>>

FleetNext ==
  \/ \E t \in Fleet, n \in Nodes, k \in Keys : FleetGet(t, n, k) /\ UNCHANGED notFleet
  \/ \E t \in Fleet : FleetLookup(t) /\ UNCHANGED notFleet
  \/ \E t \in Fleet : FleetDoLock(t) /\ UNCHANGED notFleet
  \/ \E t \in Fleet : FleetPick(t) /\ UNCHANGED notFleet
  \/ \E t \in Fleet : FleetReply(t) /\ UNCHANGED notFleet
  \/ \E t \in Fleet, ok \in BOOLEAN : FleetGetter(t, ok) /\ UNCHANGED notFleet
  \/ \E t \in Fleet : FleetDoDone(t) /\ UNCHANGED notFleet
  \/ \E t \in Fleet : FleetDoDelete(t) /\ UNCHANGED notFleet
  \/ \E t \in Fleet : FleetDoWait(t) /\ UNCHANGED notFleet

SpecFleet == FleetInit /\ [][FleetNext]_vars

\* The goroutines whose requests goroutine t serves, directly or through
\* the goroutines in between.
RECURSIVE Upstream(_)
Upstream(t) ==
  IF gor[t].par = 0 THEN {} ELSE {gor[t].par} \cup Upstream(gor[t].par)

\* C37: no goroutine that serves a forwarded request waits on a record
\* of the coalescer whose fn is waiting for the response to that request.
C37_NoCircularWait ==
  \A t \in Fleet :
    (gor[t].pc = "Wait" /\ frec[gor[t].call].wg = 1)
      => frec[gor[t].call].by \notin Upstream(t)

\* C39: a Get that returns without error returns a value that the backing
\* source of some node gave for the key of that Get.
C39_NoCrossKey ==
  \A t \in Fleet :
    (gor[t].pc \in {"done", "gone"} /\ gor[t].ret.err = NIL)
      => gor[t].ret.val.of = gor[t].key

\* The same for the keys that the transport hands on unchanged.
NoCrossKeyPlain ==
  \A t \in Fleet :
    (/\ gor[t].pc \in {"done", "gone"} /\ gor[t].ret.err = NIL
     /\ ServedKey(gor[t].key) = gor[t].key)
      => gor[t].ret.val.of = gor[t].key

\* No circular wait when the pools of all nodes were Set with the same peers.
NoCircularWaitSameRing ==
  (\A n \in Nodes : pools[n].peers = pools[Self].peers) => C37_NoCircularWait

====
